---- MODULE Spec2Model ----
(***************************************************************************)
(* A model of pystatlab's resampling inference code:                       *)
(*   src/pystatlab/ab_testing.py   ParentTestInterface and its strategies  *)
(*                                 BayesBeta, Bootstrap, QuantileBootstrap,*)
(*                                 ResamplingTtest; permutation_ind        *)
(*   src/pystatlab/stat_analysis.py  bootstrap_ci, jackknife_estim         *)
(*                                                                         *)
(* A session object is its Python __dict__: a function from attribute      *)
(* names to values.  An attribute that was never written is not in the     *)
(* domain, and reading it raises AttributeError.  Numbers are exact        *)
(* rationals <<numerator, denominator>>; a denominator of 0 stands for the *)
(* non-finite floats (<<1,0>> inf, <<-1,0>> -inf, <<0,0>> nan).            *)
(* A method runs on a frame [d, exc, eng, trials, rng, local, ret]: the    *)
(* __dict__, the exception raised so far ("none" while running), the       *)
(* resampling engine the call has built, the number of trials it has run,  *)
(* the calls it has made on numpy's process-wide random generator, its     *)
(* local variables and its return value; a statement applied to a frame    *)
(* that has raised does nothing.                                           *)
(***************************************************************************)
EXTENDS Integers, Sequences, FiniteSets, TLC

VARIABLES
  cls,    \* the class of the session, or the function, under call
  d,      \* the session's __dict__ (attribute name -> value)
  call,   \* the last call: operation, arguments, exception, engine, result
  resampled,  \* history: a resample call on the session has returned
  ref     \* history: one earlier run of QuantileBootstrap.resample, kept to
          \* compare later runs with, or the summary inputs a ResamplingTtest
          \* session holds the moments of (NoRun while none is kept)

vars == <<cls, d, call, resampled, ref>>

----------------------------------------------------------------------------
(* Bounds of the model *)

\* n_resamples ranges over 1..MaxResamples
MaxResamples == 2

----------------------------------------------------------------------------
(* Exact rational arithmetic for Python / numpy floats *)

RECURSIVE GCD(_, _)
GCD(a, b) == IF b = 0 THEN a ELSE GCD(b, a % b)

Abs(x) == IF x < 0 THEN -x ELSE x

Sign(x) == IF x < 0 THEN -1 ELSE IF x = 0 THEN 0 ELSE 1

\* the float n/d in lowest terms; d = 0 gives inf, -inf or nan
Rat(n, dn) ==
  IF dn = 0 THEN <<Sign(n), 0>>
  ELSE LET g == GCD(Abs(n), Abs(dn))
           s == Sign(dn)
       IN  <<(s * n) \div g, (s * dn) \div g>>

Int2Rat(n) == <<n, 1>>

IsFinite(x) == x[2] # 0

IsNaN(x) == x = <<0, 0>>

\* a + b: inf + -inf and anything with nan are nan
RAdd(a, b) ==
  IF IsFinite(a) /\ IsFinite(b) THEN Rat(a[1] * b[2] + b[1] * a[2], a[2] * b[2])
  ELSE IF IsNaN(a) \/ IsNaN(b) THEN <<0, 0>>
  ELSE IF IsFinite(a) THEN b
  ELSE IF IsFinite(b) THEN a
  ELSE IF a = b THEN a ELSE <<0, 0>>

RNeg(a) == <<-a[1], a[2]>>

RSub(a, b) == RAdd(a, RNeg(b))

\* a * b: 0 * inf is nan
RMul(a, b) ==
  IF IsFinite(a) /\ IsFinite(b) THEN Rat(a[1] * b[1], a[2] * b[2])
  ELSE <<Sign(a[1]) * Sign(b[1]), 0>>

\* numpy's a / b: x / 0 is inf, -inf or nan and does not raise
RDiv(a, b) ==
  IF IsFinite(a) /\ IsFinite(b)
  THEN IF b[1] = 0 THEN <<Sign(a[1]), 0>>
       ELSE Rat(Sign(b[1]) * a[1] * b[2], Abs(b[1]) * a[2])
  ELSE IF IsFinite(a) /\ ~IsNaN(b) THEN <<0, 1>>
  ELSE IF IsFinite(b) /\ ~IsNaN(a) /\ b[1] # 0 THEN <<a[1] * Sign(b[1]), 0>>
  ELSE IF IsFinite(b) /\ ~IsNaN(a) THEN a
  ELSE <<0, 0>>

\* a < b on floats: every comparison with nan is false
RLt(a, b) ==
  IF IsNaN(a) \/ IsNaN(b) THEN FALSE
  ELSE IF IsFinite(a) /\ IsFinite(b) THEN a[1] * b[2] < b[1] * a[2]
  ELSE IF IsFinite(a) THEN b[1] > 0
  ELSE IF IsFinite(b) THEN a[1] < 0
  ELSE a[1] < b[1]

RGt(a, b) == RLt(b, a)

RLe(a, b) == RLt(a, b) \/ (a = b /\ ~IsNaN(a))

RMin(a, b) == IF RLt(b, a) THEN b ELSE a

RZero == <<0, 1>>
ROne == <<1, 1>>
RTwo == <<2, 1>>

----------------------------------------------------------------------------
(* Python dictionaries and frames *)

EmptyDict == <<>>

Has(dict, key) == key \in DOMAIN dict

\* dict[key] = value
Put(dict, key, value) == (key :> value) @@ dict

\* no ParallelResampler was constructed
NoEngine == [built |-> FALSE, n_resamples |-> 0, n_jobs |-> 0,
             progress_bar |-> FALSE, random_state |-> "None"]

\* trials counts the resampling trials the call has executed
\* the value of a call that has not returned one
NoRet == [none |-> TRUE]

Frame(dict) == [d |-> dict, exc |-> "none", eng |-> NoEngine, trials |-> 0,
                rng |-> <<>>, local |-> EmptyDict, ret |-> NoRet]

\* return value
Return(fr, value) == IF fr.exc = "none" THEN [fr EXCEPT !.ret = value] ELSE fr

Raise(fr, e) == IF fr.exc = "none" THEN [fr EXCEPT !.exc = e] ELSE fr

Running(fr) == fr.exc = "none"

\* np.random.seed(seed): fr.rng lists the calls this call has made on NumPy's
\* process-wide generator, in order
NpRandomSeed(fr, seed) ==
  IF ~Running(fr) THEN fr
  ELSE [fr EXCEPT !.rng = Append(@, [op |-> "seed", seed |-> seed, params |-> <<>>])]

\* one draw of an array from the process-wide generator
NpRandomDraw(fr, op, params) ==
  IF ~Running(fr) THEN fr
  ELSE [fr EXCEPT !.rng = Append(@, [op |-> op, seed |-> "", params |-> params])]

----------------------------------------------------------------------------
(* ParentTestInterface: attribute interception and the quantile bounds *)

\* object.__setattr__(self, key, value)
StoreAttr(fr, key, value) ==
  IF Running(fr) THEN [fr EXCEPT !.d = Put(fr.d, key, value)] ELSE fr

\* self.__dict__.get('n_jobs') != 1, also true when n_jobs was never set
NJobsIsNotOne(dict) == ~(Has(dict, "n_jobs") /\ dict["n_jobs"] = 1)

\* __setattr__, lines 43-46: mirror the write into self.init_items.  The
\* lookup self.init_items is evaluated for every key, and raises
\* AttributeError while the attribute init_items does not exist.
MirrorInitItems(fr, key, value) ==
  IF ~Running(fr) THEN fr
  ELSE IF ~Has(fr.d, "init_items") THEN Raise(fr, "AttributeError")
  ELSE LET ii == fr.d["init_items"] IN
       IF key = "progress_bar" /\ NJobsIsNotOne(ii)
       THEN [fr EXCEPT !.d = Put(fr.d, "init_items", Put(ii, key, FALSE))]
       ELSE IF Has(ii, key) /\ ii[key] # value
       THEN [fr EXCEPT !.d = Put(fr.d, "init_items", Put(ii, key, value))]
       ELSE fr

\* __setattr__ for every key but confidence_level (lines 38-46)
SetAttrOther(fr, key, value) ==
  LET stored == IF key = "progress_bar" /\ NJobsIsNotOne(fr.d)
                THEN StoreAttr(fr, key, FALSE)
                ELSE StoreAttr(fr, key, value)
  IN  MirrorInitItems(stored, key, value)

\* _compute_confidence_bounds: alpha = 1 - confidence_level, then
\* self.left_quant, self.right_quant = alpha / 2, 1 - alpha / 2
ComputeConfidenceBounds(fr) ==
  IF ~Running(fr) THEN fr
  ELSE IF ~Has(fr.d, "confidence_level") THEN Raise(fr, "AttributeError")
  ELSE LET alpha == RSub(ROne, fr.d["confidence_level"])
           left  == RDiv(alpha, RTwo)
           right == RSub(ROne, RDiv(alpha, RTwo))
       IN  SetAttrOther(SetAttrOther(fr, "left_quant", left), "right_quant", right)

\* __setattr__ without the branch for confidence_level: the level is stored
\* and the quantile bounds keep their old values
SetAttrPlain(fr, key, value) ==
  IF ~Running(fr) THEN fr ELSE SetAttrOther(fr, key, value)

\* ParentTestInterface.__setattr__
SetAttr(fr, key, value) ==
  IF ~Running(fr) THEN fr
  ELSE IF key = "confidence_level"
  THEN MirrorInitItems(ComputeConfidenceBounds(StoreAttr(fr, key, value)), key, value)
  ELSE SetAttrOther(fr, key, value)

\* ParentTestInterface.__init__
ParentInit(fr, confidence_level) ==
  LET f1 == SetAttr(fr, "confidence_level", confidence_level)
      \* self.init_items = self.__dict__.copy(): the copy is taken first
      f2 == IF Running(f1) THEN SetAttr(f1, "init_items", f1.d) ELSE f1
  IN  ComputeConfidenceBounds(f2)

----------------------------------------------------------------------------
(* The constructors of the four strategies *)

Strategies == {"BayesBeta", "Bootstrap", "QuantileBootstrap", "ResamplingTtest"}

\* constructor arguments the model draws from
ConfLevels == {Rat(1, 2), Rat(9, 10)}
ResampleCounts == 1..MaxResamples
Seeds == {"None", "0", "42"}
JobCounts == {-1, 1}
Funcs == {"mean", "sum"}
QLevels == {Rat(1, 2)}

BayesBetaInit(fr, a) ==
  ParentInit(SetAttr(SetAttr(fr, "n_resamples", a.n_resamples),
                     "random_state", a.random_state),
             a.confidence_level)

BootstrapInit(fr, a) ==
  LET f1 == SetAttr(fr, "func", a.func)
      f2 == SetAttr(f1, "n_resamples", a.n_resamples)
      f3 == SetAttr(f2, "random_state", a.random_state)
      f4 == SetAttr(f3, "n_jobs", a.n_jobs)
      f5 == SetAttr(f4, "progress_bar",
                    IF a.n_jobs # 1 THEN FALSE ELSE a.progress_bar)
  IN  ParentInit(f5, a.confidence_level)

QuantileBootstrapInit(fr, a) ==
  ParentInit(SetAttr(SetAttr(SetAttr(fr, "q", a.q),
                             "n_resamples", a.n_resamples),
                     "random_state", a.random_state),
             a.confidence_level)

ResamplingTtestInit(fr, a) ==
  ParentInit(SetAttr(SetAttr(fr, "n_resamples", a.n_resamples),
                     "random_state", a.random_state),
             a.confidence_level)

\* the arguments a constructor call passes, defaults filled in
CtorArgs(c) ==
  IF c = "Bootstrap"
  THEN [func : Funcs, confidence_level : ConfLevels, n_resamples : ResampleCounts,
        random_state : Seeds, n_jobs : JobCounts, progress_bar : BOOLEAN]
  ELSE IF c = "QuantileBootstrap"
  THEN [q : QLevels, confidence_level : ConfLevels, n_resamples : ResampleCounts,
        random_state : Seeds]
  ELSE [confidence_level : ConfLevels, n_resamples : ResampleCounts,
        random_state : Seeds]

RunInit(c, fr, a) ==
  IF c = "BayesBeta" THEN BayesBetaInit(fr, a)
  ELSE IF c = "Bootstrap" THEN BootstrapInit(fr, a)
  ELSE IF c = "QuantileBootstrap" THEN QuantileBootstrapInit(fr, a)
  ELSE ResamplingTtestInit(fr, a)

\* no run is kept for comparison
NoRun == [none |-> TRUE]

NoCall == [op |-> "none", args |-> NoRet, exc |-> "none", eng |-> NoEngine,
           trials |-> 0, rng |-> <<>>, local |-> EmptyDict, returned |-> FALSE,
           ret |-> NoRet]

\* the record of a finished call
Called(op, a, fr) ==
  [op |-> op, args |-> a, exc |-> fr.exc, eng |-> fr.eng, trials |-> fr.trials,
   rng |-> fr.rng, local |-> fr.local, returned |-> fr.exc = "none", ret |-> IF fr.exc = "none" THEN fr.ret ELSE NoRet]

(* Construction: the call Strategy(...) on a freshly allocated object *)

CtorInit ==
  /\ cls \in Strategies
  /\ d = EmptyDict
  /\ call = NoCall
  /\ resampled = FALSE
  /\ ref = NoRun

Construct ==
  /\ call.op = "none"
  /\ \E a \in CtorArgs(cls) :
       LET fr == RunInit(cls, Frame(d), a) IN
       /\ d' = fr.d
       /\ call' = Called("__init__", a, fr)
  /\ UNCHANGED <<cls, resampled, ref>>

CtorNext == Construct

CtorSpec == CtorInit /\ [][CtorNext]_vars

----------------------------------------------------------------------------
(* Arrays and the statistics applied to them *)

RECURSIVE SumSeq(_)
SumSeq(s) == IF Len(s) = 0 THEN 0 ELSE Head(s) + SumSeq(Tail(s))

\* sample[:, i] of a 2-D array held as a sequence of rows
Column(sample, i) == [k \in 1..Len(sample) |-> sample[k][i]] \o <<>>

\* np.column_stack((numerator, denominator))
ColumnStack(numerator, denominator) ==
  [k \in 1..Len(numerator) |-> <<numerator[k], denominator[k]>>] \o <<>>

\* sample[ids] for 0-based indices
Gather(sample, ids) == [k \in 1..Len(ids) |-> sample[ids[k] + 1]] \o <<>>

\* the statistic functions a session holds in self.func, applied to a sample:
\* np.mean, np.sum, and ratio_func (lines 593-594) on a stacked sample
Stat(func, sample) ==
  IF func = "mean" THEN Rat(SumSeq(sample), Len(sample))
  ELSE IF func = "sum" THEN Int2Rat(SumSeq(sample))
  ELSE RDiv(Int2Rat(SumSeq(Column(sample, 1))), Int2Rat(SumSeq(Column(sample, 2))))

\* _compute_uplift on numpy values: (after - before) / before
ComputeUplift(before, after) == RDiv(RSub(after, before), before)

ComputeUpliftSeq(before, after) ==
  [k \in 1..Len(before) |-> ComputeUplift(before[k], after[k])] \o <<>>

RECURSIVE RInsert(_, _)
RInsert(x, s) ==
  IF Len(s) = 0 THEN <<x>>
  ELSE IF RLt(Head(s), x) THEN <<Head(s)>> \o RInsert(x, Tail(s))
  ELSE <<x>> \o s

RECURSIVE RSort(_)
RSort(s) == IF Len(s) = 0 THEN <<>> ELSE RInsert(Head(s), RSort(Tail(s)))

\* np.quantile(data, q), linear interpolation between the order statistics
Quantile(data, q) ==
  IF \E k \in 1..Len(data) : IsNaN(data[k]) THEN <<0, 0>>
  ELSE LET sorted == RSort(data)
           pos    == RMul(q, Int2Rat(Len(data) - 1))
           lo     == pos[1] \div pos[2]
           hi     == IF lo + 1 < Len(data) THEN lo + 1 ELSE lo
           gamma  == RSub(pos, Int2Rat(lo))
       IN  IF gamma = RZero THEN sorted[lo + 1]
           ELSE RAdd(sorted[lo + 1],
                     RMul(RSub(sorted[hi + 1], sorted[lo + 1]), gamma))

\* np.quantile raises ValueError for a level outside [0, 1]
QuantileLevelOk(q) == RLe(RZero, q) /\ RLe(q, ROne)

\* _compute_ci: np.quantile(data, [self.left_quant, self.right_quant])
ComputeCI(dict, data) ==
  <<Quantile(data, dict["left_quant"]), Quantile(data, dict["right_quant"])>>

\* self.<key> = self._compute_ci(data)
SetCI(fr, key, data) ==
  IF ~Running(fr) THEN fr
  ELSE IF ~(QuantileLevelOk(fr.d["left_quant"]) /\ QuantileLevelOk(fr.d["right_quant"]))
  THEN Raise(fr, "ValueError")
  ELSE SetAttr(fr, key, ComputeCI(fr.d, data))

\* self.<key> = F(self.__dict__): a statement that reads attributes
Assign(fr, key, F(_)) ==
  IF Running(fr) THEN SetAttr(fr, key, F(fr.d)) ELSE fr

\* self.<key> = self._compute_ci(self.<attr>)
SetCIOf(fr, key, attr) ==
  IF Running(fr) THEN SetCI(fr, key, fr.d[attr]) ELSE fr

\* The trials of one resample call are independent draws and no operation
\* depends on their order, so an array of trial results stands for all its
\* reorderings: the arrays enumerated are those whose trials, each held as
\* a tuple of integers, come in lexicographic order.
RECURSIVE LexLe(_, _)
LexLe(x, y) ==
  IF Len(x) = 0 THEN TRUE
  ELSE IF x[1] # y[1] THEN x[1] < y[1]
  ELSE LexLe(Tail(x), Tail(y))

InTrialOrder(keys) == \A k \in 1..(Len(keys) - 1) : LexLe(keys[k], keys[k + 1])

\* x - y on two arrays of one length
ArraySub(x, y) == [k \in 1..Len(x) |-> RSub(x[k], y[k])] \o <<>>

\* _get_alternative_value
GetAlternativeValue(p, two_sided) ==
  IF two_sided THEN RMin(RMul(RTwo, p), RSub(RTwo, RMul(RTwo, p))) ELSE p

\* return self.get_test_parameters(): self.init_items.copy()
GetTestParameters(fr) ==
  IF Running(fr) THEN Return(fr, fr.d["init_items"]) ELSE fr

\* the number of k with test[k] > control[k]
CountGreater(test, control) ==
  Cardinality({k \in 1..Len(test) : RGt(test[k], control[k])})

----------------------------------------------------------------------------
(* The resampling engine (tools.ParallelResampler) *)

\* ParallelResampler(n_resamples, random_state, n_jobs, progress_bar)
EngineConstruct(fr, n_resamples, random_state, n_jobs, progress_bar) ==
  IF ~Running(fr) THEN fr
  ELSE [fr EXCEPT !.eng = [built |-> TRUE, n_resamples |-> n_resamples,
                           n_jobs |-> n_jobs, progress_bar |-> progress_bar,
                           random_state |-> random_state]]

\* pr.resample(trial): the engine runs n_resamples trials and returns their
\* results, one row per trial
EngineResample(fr, rows) ==
  IF ~Running(fr) THEN fr ELSE [fr EXCEPT !.trials = Len(rows)]

----------------------------------------------------------------------------
(* Bootstrap *)

\* seed.integers(low=0, high=high, size=size): every array the generator
\* can return
IntegerDraws(high, size) == [1..size -> 0..(high - 1)]

\* the two draws one trial's generator makes in _generate_indices
TrialDraws(size_a, size_b, match_max_length) ==
  LET m == IF size_a > size_b THEN size_a ELSE size_b IN
  [a : IntegerDraws(size_a, IF match_max_length THEN m ELSE size_a),
   b : IntegerDraws(size_b, IF match_max_length THEN m ELSE size_b)]

\* index vectors drawn for each arm on its own, whatever ind is
GenerateIndicesApart(seed, size_a, size_b, ind, match_max_length) ==
  <<seed.a, seed.b>>

\* _generate_indices (lines 563-573); seed.a and seed.b are what the
\* generator returns for the first and the second call of integers
GenerateIndices(seed, size_a, size_b, ind, match_max_length) ==
  IF ~ind THEN <<seed.a, seed.a>> ELSE <<seed.a, seed.b>>

\* _rel_size_comparison that rejects only a longer control arm
RelSizeComparisonOneWay(fr, size_a, size_b, ind) ==
  IF ~ind /\ size_a > size_b THEN Raise(fr, "ValueError") ELSE fr

\* _rel_size_comparison (lines 575-577)
RelSizeComparison(fr, size_a, size_b, ind) ==
  IF ~ind /\ size_a # size_b THEN Raise(fr, "ValueError") ELSE fr

\* a trial that draws the denominators of a ratio apart from the numerators
ResampleFuncByColumn(seed, func, sample_a, sample_b, ind, match_max_length) ==
  LET ids_b == IF ind THEN seed.b ELSE seed.a
      num_a == SumSeq([k \in 1..Len(seed.a) |-> sample_a[seed.a[k] + 1][1]])
      den_a == SumSeq([k \in 1..Len(seed.a) |->
                         sample_a[((seed.a[k] + 1) % Len(sample_a)) + 1][2]])
      num_b == SumSeq([k \in 1..Len(ids_b) |-> sample_b[ids_b[k] + 1][1]])
      den_b == SumSeq([k \in 1..Len(ids_b) |->
                         sample_b[((ids_b[k] + 1) % Len(sample_b)) + 1][2]])
  IN  IF func = "ratio_func"
      THEN <<RDiv(Int2Rat(num_a), Int2Rat(den_a)), RDiv(Int2Rat(num_b), Int2Rat(den_b))>>
      ELSE <<Stat(func, Gather(sample_a, seed.a)), Stat(func, Gather(sample_b, ids_b))>>

\* _resample_func (lines 606-608): one trial
ResampleFunc(seed, func, sample_a, sample_b, ind, match_max_length) ==
  LET ids == GenerateIndices(seed, Len(sample_a), Len(sample_b), ind, match_max_length)
  IN  <<Stat(func, Gather(sample_a, ids[1])), Stat(func, Gather(sample_b, ids[2]))>>

\* self.uplift = self._compute_uplift(self.func(sample_a), self.func(sample_b));
\* ratio_func indexes sample[:, 0], which raises IndexError on a 1-D array
SetUplift(fr, sample_a, sample_b, stacked) ==
  IF ~Running(fr) THEN fr
  ELSE IF fr.d["func"] = "ratio_func" /\ ~stacked THEN Raise(fr, "IndexError")
  ELSE SetAttr(fr, "uplift", ComputeUplift(Stat(fr.d["func"], sample_a),
                                           Stat(fr.d["func"], sample_b)))

\* line 585: len(samples[0]) != len(samples[1]) or
\* len(samples[2]) != len(samples[3])
RatioLengthsDiffer(samples) ==
  Len(samples[1]) # Len(samples[2]) \/ Len(samples[3]) # Len(samples[4])

\* resample, lines 579-604: the samples, the statistic and the uplift.
\* The result carries the frame and the two samples the trials draw from.
BootstrapPrepare(fr, a) ==
  IF Len(a.samples) = 2
  THEN [fr |-> SetUplift(RelSizeComparison(fr, Len(a.samples[1]), Len(a.samples[2]),
                                           a.ind),
                         a.samples[1], a.samples[2], FALSE),
        sample_a |-> a.samples[1], sample_b |-> a.samples[2]]
  ELSE IF Len(a.samples) = 4
  THEN IF RatioLengthsDiffer(a.samples)
       THEN [fr |-> Raise(fr, "ValueError"), sample_a |-> <<>>, sample_b |-> <<>>]
       ELSE [fr |-> SetUplift(RelSizeComparison(SetAttr(fr, "func", "ratio_func"),
                                                Len(a.samples[1]), Len(a.samples[3]),
                                                a.ind),
                              ColumnStack(a.samples[1], a.samples[2]),
                              ColumnStack(a.samples[3], a.samples[4]), TRUE),
             sample_a |-> ColumnStack(a.samples[1], a.samples[2]),
             sample_b |-> ColumnStack(a.samples[3], a.samples[4])]
  ELSE [fr |-> Raise(fr, "ValueError"), sample_a |-> <<>>, sample_b |-> <<>>]

\* one call of _resample_func(seed) by the engine, inside a resample that
\* has passed lines 579-604; the frame keeps the index vectors of line 607
BootstrapTrialCall(fr, seed, sample_a, sample_b, ind, match_max_length) ==
  Return([fr EXCEPT !.local =
            [ids |-> GenerateIndices(seed, Len(sample_a), Len(sample_b), ind,
                                     match_max_length)]],
         ResampleFunc(seed, fr.d["func"], sample_a, sample_b, ind, match_max_length))

\* every result one trial can have
TrialRows(func, sample_a, sample_b, ind, match_max_length) ==
  {ResampleFunc(seed, func, sample_a, sample_b, ind, match_max_length) :
     seed \in TrialDraws(Len(sample_a), Len(sample_b), match_max_length)}

\* every array the engine can return to this call of resample, up to the
\* order of its trials
BootstrapEngineResults(dict, a) ==
  LET pre == BootstrapPrepare(Frame(dict), a) IN
  IF Running(pre.fr)
  THEN {rows \in [1..dict["n_resamples"] ->
                     TrialRows(pre.fr.d["func"], pre.sample_a, pre.sample_b,
                               a.ind, a.match_max_length)] :
          InTrialOrder([k \in 1..Len(rows) |-> rows[k][1] \o rows[k][2]])}
  ELSE {<<>>}

\* pr = ParallelResampler(n_resamples=self.n_resamples, ...) (lines 610-614)
BootstrapEngine(fr) ==
  IF ~Running(fr) THEN fr
  ELSE EngineConstruct(fr, fr.d["n_resamples"], fr.d["random_state"],
                       fr.d["n_jobs"], fr.d["progress_bar"])

\* lines 615-617: the engine's result and the differences of its columns
BootstrapStore(fr, rows) ==
  SetAttr(SetAttr(EngineResample(fr, rows), "_resample_data", rows),
          "diffs", ArraySub(Column(rows, 2), Column(rows, 1)))

\* lines 618-623: the intervals and the uplift distribution
BootstrapIntervals(fr, rows) ==
  SetCIOf(SetAttr(SetCIOf(SetCI(SetCI(fr, "a_ci", Column(rows, 1)),
                                "b_ci", Column(rows, 2)),
                          "diff_ci", "diffs"),
                  "uplift_dist", ComputeUpliftSeq(Column(rows, 1), Column(rows, 2))),
          "uplift_ci", "uplift_dist")

\* Bootstrap.resample(*samples, match_max_length, ind); rows is what
\* pr.resample(_resample_func) returns
BootstrapResampleCall(fr, a, rows) ==
  GetTestParameters(
    BootstrapIntervals(
      BootstrapStore(BootstrapEngine(BootstrapPrepare(fr, a).fr), rows), rows))

\* the attributes Bootstrap.compute reads (lines 647-656)
BootstrapComputeReads ==
  {"_resample_data", "n_resamples", "uplift", "uplift_ci", "a_ci", "b_ci",
   "diff_ci"}

\* the body of Bootstrap.compute (lines 647-663) once every attribute it
\* reads exists
BootstrapComputeResult(fr, a) ==
  LET data == fr.d["_resample_data"]
      p == Rat(CountGreater(Column(data, 2), Column(data, 1)) + 1,
               fr.d["n_resamples"] + 1)
      result == [pvalue |-> GetAlternativeValue(p, a.two_sided),
                 uplift |-> fr.d["uplift"], uplift_ci |-> fr.d["uplift_ci"],
                 control_ci |-> fr.d["a_ci"], test_ci |-> fr.d["b_ci"],
                 diff_ci |-> fr.d["diff_ci"]]
  IN  IF a.readable THEN Return(fr, EmptyDict) ELSE Return(fr, result)

\* compute that answers a missing attribute with an empty result instead
\* of letting the AttributeError out
BootstrapComputeLenient(fr, a) ==
  IF \E k \in BootstrapComputeReads : ~Has(fr.d, k)
  THEN Return(fr, EmptyDict)
  ELSE BootstrapComputeResult(fr, a)

\* Bootstrap.compute(two_sided, readable); reading an attribute that no
\* resample has stored raises AttributeError
BootstrapComputeCall(fr, a) ==
  IF \E k \in BootstrapComputeReads : ~Has(fr.d, k)
  THEN Raise(fr, "AttributeError")
  ELSE BootstrapComputeResult(fr, a)

\* inputs of Bootstrap.resample the model draws from
BootstrapSamples ==
  { << <<1, 3>>, <<2, 2>> >>,                       \* two arms of one length
    << <<2>>, <<1, 1>> >>,                          \* two arms of unequal length
    << <<1, 1>>, <<1, 1>>, <<2, 2>>, <<1, 1>> >>,   \* ratio, arms of one length
    << <<2>>, <<1>>, <<1, 1>>, <<1, 1>> >>,         \* ratio, arms of unequal length
    << <<1, 1>>, <<1>>, <<2, 2>>, <<1, 1>> >>,      \* ratio, arm A mismatched
    << <<1, 1>>, <<1, 1>>, <<2, 2>>, <<1>> >>,      \* ratio, arm B mismatched
    << <<1, 3>>, <<2, 2>>, <<1>> >> }               \* three arrays

BootstrapArgs ==
  [samples : BootstrapSamples, match_max_length : BOOLEAN, ind : BOOLEAN]

\* inputs of the resample calls whose single trials are followed: arms
\* whose rows differ from each other
TrialSamples ==
  { << <<1, 3>>, <<2, 4>> >>,                       \* two arms of one length
    << <<2>>, <<1, 3>> >>,                          \* two arms of unequal length
    << <<1, 2>>, <<1, 3>>, <<2, 2>>, <<1, 2>> >> }  \* ratio, arms of one length

TrialArgs ==
  [samples : TrialSamples, match_max_length : BOOLEAN, ind : BOOLEAN]

ComputeArgs == [two_sided : BOOLEAN, readable : BOOLEAN]

----------------------------------------------------------------------------
(* numpy broadcasting of two 1-D arrays *)

\* shapes (n,) and (m,) broadcast when n = m or one of them is 1
Broadcastable(x, y) == Len(x) = Len(y) \/ Len(x) = 1 \/ Len(y) = 1

BroadcastLen(x, y) == IF Len(x) > Len(y) THEN Len(x) ELSE Len(y)

BroadcastAt(x, k) == IF Len(x) = 1 THEN x[1] ELSE x[k]

\* np.sum(x > y)
CountGreaterBroadcast(x, y) ==
  Cardinality({k \in 1..BroadcastLen(x, y) :
                 RGt(BroadcastAt(x, k), BroadcastAt(y, k))})

\* _compute_uplift(before, after) on two arrays
ComputeUpliftBroadcast(before, after) ==
  [k \in 1..BroadcastLen(before, after) |->
     ComputeUplift(BroadcastAt(before, k), BroadcastAt(after, k))] \o <<>>

RECURSIVE RSum(_)
RSum(s) == IF Len(s) = 0 THEN RZero ELSE RAdd(Head(s), RSum(Tail(s)))

\* np.mean(np.maximum(x, 0)); np.maximum propagates nan
MeanOfPositivePart(x) ==
  IF Len(x) = 0 THEN <<0, 0>>
  ELSE RDiv(RSum([k \in 1..Len(x) |->
                    IF IsNaN(x[k]) \/ RGt(x[k], RZero) THEN x[k] ELSE RZero]),
            Int2Rat(Len(x)))

----------------------------------------------------------------------------
(* BayesBeta *)

\* values np.random.beta returns; every one lies in (0, 1)
BetaValues == {Rat(1, 4), Rat(3, 4)}

\* np.random.beta(a, b, size): the arrays of the two arms
BetaArrays(size) ==
  {x \in [control : [1..size -> BetaValues], test : [1..size -> BetaValues]] :
     InTrialOrder([k \in 1..size |-> x.control[k] \o x.test[k]])}

\* a prior of two values taken for the control arm only, the test arm flat
PriorOfControlOnly(prior) ==
  IF Len(prior.items) = 0 THEN <<1, 1, 1, 1>>
  ELSE IF Len(prior.items) = 2 THEN prior.items \o <<1, 1>>
  ELSE prior.items

\* the prior after lines 335-344: () is (1, 1, 1, 1), (a, b) is repeated
PriorOf(prior) ==
  IF Len(prior.items) = 0 THEN <<1, 1, 1, 1>>
  ELSE IF Len(prior.items) = 2 THEN prior.items \o prior.items
  ELSE prior.items

\* python's a / b on two ints
PyDivide(fr, key, a, b) ==
  IF ~Running(fr) THEN fr
  ELSE IF b = 0 THEN Raise(fr, "ZeroDivisionError")
  ELSE SetAttr(fr, key, Rat(a, b))

\* self.<key> = np.random.beta(a=a, b=b, size=self.n_resamples)
BetaSample(fr, key, a, b, draw) ==
  IF ~Running(fr) THEN fr
  ELSE IF a <= 0 \/ b <= 0 THEN Raise(fr, "ValueError")
  ELSE SetAttr(NpRandomDraw(fr, "beta", <<a, b, fr.d["n_resamples"]>>), key, draw)

\* self.uplift = self._compute_uplift(self.cr_control, self.cr_test) on two
\* python floats
BayesBetaUplift(fr) ==
  IF ~Running(fr) THEN fr
  ELSE IF fr.d["cr_control"] = RZero THEN Raise(fr, "ZeroDivisionError")
  ELSE SetAttr(fr, "uplift", ComputeUplift(fr.d["cr_control"], fr.d["cr_test"]))

\* resample, lines 329-351: the checks of the arguments, the seed, the
\* conversion rates and the uplift
BayesBetaPrepare(fr, a) ==
  IF Len(a.nobs) # 2 \/ Len(a.counts) # 2 THEN Raise(fr, "ValueError")
  ELSE IF a.prior.type \notin {"list", "tuple"} THEN Raise(fr, "TypeError")
  ELSE IF Len(a.prior.items) \in {1, 3} \/ Len(a.prior.items) > 4
  THEN Raise(fr, "ValueError")
  ELSE BayesBetaUplift(PyDivide(PyDivide(NpRandomSeed(fr, fr.d["random_state"]),
                                         "cr_control", a.nobs[1], a.counts[1]),
                                "cr_test", a.nobs[2], a.counts[2]))

\* self.uplift_dist = self._compute_uplift(self.beta_control, self.beta_test)
BayesBetaUpliftDist(dict) ==
  ComputeUpliftSeq(dict["beta_control"], dict["beta_test"])

\* the two draws of lines 352-353; pr is the prior of lines 335-344
BayesBetaSample(fr, a, pr, draws) ==
  BetaSample(BetaSample(fr, "beta_control", a.nobs[1] + pr[1],
                        a.counts[1] - a.nobs[1] + pr[2], draws.control),
             "beta_test", a.nobs[2] + pr[3], a.counts[2] - a.nobs[2] + pr[4],
             draws.test)

\* BayesBeta.resample(nobs, counts, prior); draws is what the two calls of
\* np.random.beta return
BayesBetaResampleCall(fr, a, draws) ==
  GetTestParameters(
    SetCIOf(Assign(BayesBetaSample(BayesBetaPrepare(fr, a), a, PriorOf(a.prior), draws),
                   "uplift_dist", BayesBetaUpliftDist),
            "uplift_ci", "uplift_dist"))

\* BayesBeta.compute(two_sided, readable)
BayesBetaComputeCall(fr, a) ==
  IF \E k \in {"beta_test", "beta_control", "n_resamples"} : ~Has(fr.d, k)
  THEN Raise(fr, "AttributeError")
  ELSE IF ~Broadcastable(fr.d["beta_test"], fr.d["beta_control"])
  THEN Raise(fr, "ValueError")
  ELSE IF ~Has(fr.d, "uplift_dist") THEN Raise(fr, "AttributeError")
  ELSE IF \E k \in {"uplift", "uplift_ci"} : ~Has(fr.d, k)
  THEN Raise(fr, "AttributeError")
  ELSE
    LET p == Rat(CountGreaterBroadcast(fr.d["beta_test"], fr.d["beta_control"]) + 1,
                 fr.d["n_resamples"] + 1)
        pvalue == GetAlternativeValue(p, a.two_sided)
        control_loss == MeanOfPositivePart(fr.d["uplift_dist"])
        test_loss == MeanOfPositivePart(
                       ComputeUpliftBroadcast(fr.d["beta_test"], fr.d["beta_control"]))
        significance_result == IF a.two_sided THEN [pvalue |-> pvalue]
                               ELSE [proba |-> pvalue]
        result == significance_result @@
                  [uplift |-> fr.d["uplift"], uplift_ci |-> fr.d["uplift_ci"],
                   control_loss |-> control_loss, test_loss |-> test_loss]
    IN  IF a.readable THEN Return(fr, EmptyDict) ELSE Return(fr, result)

NoPrior == [type |-> "tuple", items |-> <<>>]

\* inputs of BayesBeta.resample the model draws from
BayesBetaArgs ==
  { [nobs |-> <<1, 1>>, counts |-> <<2, 2>>, prior |-> NoPrior],
    [nobs |-> <<1, 2>>, counts |-> <<2, 2>>,
     prior |-> [type |-> "list", items |-> <<2, 1, 1, 2>>]],
    \* one prior for both arms
    [nobs |-> <<1, 2>>, counts |-> <<2, 2>>,
     prior |-> [type |-> "tuple", items |-> <<2, 1>>]],
    \* a control arm without conversions
    [nobs |-> <<0, 1>>, counts |-> <<2, 2>>, prior |-> NoPrior],
    \* more conversions than observations in the control arm
    [nobs |-> <<3, 1>>, counts |-> <<2, 2>>,
     prior |-> [type |-> "tuple", items |-> <<1, 1>>]],
    [nobs |-> <<1>>, counts |-> <<2, 2>>, prior |-> NoPrior],
    [nobs |-> <<1, 1>>, counts |-> <<2, 2>>,
     prior |-> [type |-> "dict", items |-> <<>>]],
    [nobs |-> <<1, 1>>, counts |-> <<2, 2>>,
     prior |-> [type |-> "tuple", items |-> <<1, 1, 1>>]] }

\* every pair of arrays np.random.beta can return to this call, up to the
\* order of the trials; a call that raises before the first draw has one
\* outcome
BayesBetaDraws(dict, a) ==
  LET all == BetaArrays(dict["n_resamples"]) IN
  IF Running(BayesBetaPrepare(Frame(dict), a)) THEN all
  ELSE {CHOOSE x \in all : TRUE}

----------------------------------------------------------------------------
(* QuantileBootstrap *)

\* the value None of a call that returns nothing
PyNone == NoRet

\* np.sort(np.asarray(sample))
SortedArray(sample) == RSort([k \in 1..Len(sample) |-> Int2Rat(sample[k])])

\* np.random.binomial(p=q, n=n, size=size): every array it can return
RankArrays(q, n, size) ==
  [1..size -> IF q = RZero THEN {0} ELSE IF q = ROne THEN {n} ELSE 0..n]

\* self.<key> = sample[ranks]: IndexError when a rank is not an index
TakeRanks(fr, key, sample, ranks) ==
  IF ~Running(fr) THEN fr
  ELSE IF \E k \in 1..Len(ranks) : ranks[k] >= Len(sample)
  THEN Raise(fr, "IndexError")
  ELSE SetAttr(fr, key, [k \in 1..Len(ranks) |-> sample[ranks[k] + 1]])

\* self.uplift = self._compute_uplift(*np.quantile(a=[sample_a, sample_b],
\* q=self.q, axis=1)): np.quantile needs a rectangular array
QuantileUplift(fr, sample_a, sample_b) ==
  IF ~Running(fr) THEN fr
  ELSE IF Len(sample_a) # Len(sample_b) THEN Raise(fr, "ValueError")
  ELSE SetAttr(fr, "uplift", ComputeUplift(Quantile(sample_a, fr.d["q"]),
                                           Quantile(sample_b, fr.d["q"])))

\* self.diffs = self.resample_b - self.resample_a
ResampleDiffs(dict) == ArraySub(dict["resample_b"], dict["resample_a"])

\* self.uplift_dist = self._compute_uplift(self.resample_a, self.resample_b)
ResampleUpliftDist(dict) == ComputeUpliftSeq(dict["resample_a"], dict["resample_b"])

\* np.random.binomial(p=self.q, n=sample.shape[0] + 1, size=self.n_resamples)
BinomialDraw(fr, sample) ==
  IF ~Running(fr) THEN fr
  ELSE NpRandomDraw(fr, "binomial",
                    <<fr.d["q"], Len(sample) + 1, fr.d["n_resamples"]>>)

\* lines 749-750: the two arms indexed by their ranks
QuantileSample(fr, a, ranks) ==
  TakeRanks(BinomialDraw(TakeRanks(BinomialDraw(fr, a.samples[1]),
                                   "resample_a", SortedArray(a.samples[1]), ranks.a),
                         a.samples[2]),
            "resample_b", SortedArray(a.samples[2]), ranks.b)

\* lines 752-757: the differences, the intervals and the uplift distribution
QuantileIntervals(fr) ==
  SetCIOf(Assign(SetCIOf(SetCIOf(SetCIOf(Assign(fr, "diffs", ResampleDiffs),
                                         "a_ci", "resample_a"),
                                 "b_ci", "resample_b"),
                         "diff_ci", "diffs"),
                 "uplift_dist", ResampleUpliftDist),
          "uplift_ci", "uplift_dist")

\* resample without line 746: the draws continue the generator from the
\* state it is in
QuantileResampleUnseeded(fr, a, ranks) ==
  IF Len(a.samples) # 2 THEN Raise(fr, "ValueError")
  ELSE IF ~QuantileLevelOk(fr.d["q"]) THEN Raise(fr, "ValueError")
  ELSE GetTestParameters(
         QuantileIntervals(
           QuantileUplift(QuantileSample(fr, a, ranks),
                          SortedArray(a.samples[1]), SortedArray(a.samples[2]))))

\* QuantileBootstrap.resample(*samples); ranks.a and ranks.b are what the two
\* calls of np.random.binomial return
QuantileResampleCall(fr, a, ranks) ==
  IF Len(a.samples) # 2 THEN Raise(fr, "ValueError")
  ELSE IF ~QuantileLevelOk(fr.d["q"])
  THEN Raise(NpRandomSeed(fr, fr.d["random_state"]), "ValueError")
  ELSE GetTestParameters(
         QuantileIntervals(
           QuantileUplift(QuantileSample(NpRandomSeed(fr, fr.d["random_state"]),
                                         a, ranks),
                          SortedArray(a.samples[1]), SortedArray(a.samples[2]))))

\* the generator calls of a run are reproducible: the run seeds the
\* process-wide generator with a seed other than None before its first draw.
\* A draw made before any seed comes from whatever state earlier draws of the
\* process have left the generator in.
Seeded(log) ==
  /\ Len(log) > 0
  /\ log[1].op = "seed"
  /\ log[1].seed # "None"

\* what is kept of a run: the arguments, the configuration of the session,
\* the calls on the generator, what they returned and what the run stored;
\* again is set when a later run has the same arguments and configuration
RunRecord(a, ranks, fr) ==
  [samples |-> a.samples,
   config  |-> [key \in {"q", "random_state", "n_resamples"} |-> fr.d[key]],
   again   |-> FALSE,
   log     |-> fr.rng,
   ranks   |-> ranks,
   exc     |-> fr.exc,
   arrays  |-> IF fr.exc = "none"
               THEN <<fr.d["resample_a"], fr.d["resample_b"]>> ELSE <<>>]

\* NumPy's generator is deterministic: after the same seed, the k-th draw of
\* a run returns what the k-th draw of the kept run returned when the calls
\* up to it are the same (log[1] is the seed, log[k + 1] the k-th draw)
Reproduces(run, log, ranks) ==
  (run # NoRun /\ Seeded(log)) =>
    \A k \in 1..2 :
      (/\ Len(log) > k
       /\ Len(run.log) > k
       /\ SubSeq(log, 1, k + 1) = SubSeq(run.log, 1, k + 1))
      => <<ranks.a, ranks.b>>[k] = <<run.ranks.a, run.ranks.b>>[k]

\* the run is followed by one with arguments a on a session of __dict__ dict
Followed(run, a, dict) ==
  IF /\ run # NoRun
     /\ a.samples = run.samples
     /\ \A key \in DOMAIN run.config : dict[key] = run.config[key]
  THEN [run EXCEPT !.again = TRUE]
  ELSE run

\* QuantileBootstrap.compute(two_sided, readable)
QuantileComputeCall(fr, a) ==
  IF \E k \in {"resample_b", "resample_a", "n_resamples"} : ~Has(fr.d, k)
  THEN Raise(fr, "AttributeError")
  ELSE IF ~Broadcastable(fr.d["resample_b"], fr.d["resample_a"])
  THEN Raise(fr, "ValueError")
  ELSE IF \E k \in {"uplift", "uplift_ci", "a_ci", "b_ci", "diff_ci"} : ~Has(fr.d, k)
  THEN Raise(fr, "AttributeError")
  ELSE
    LET p == Rat(CountGreaterBroadcast(fr.d["resample_b"], fr.d["resample_a"]) + 1,
                 fr.d["n_resamples"] + 1)
        result == [pvalue |-> GetAlternativeValue(p, a.two_sided),
                   uplift |-> fr.d["uplift"], uplift_ci |-> fr.d["uplift_ci"],
                   control_ci |-> fr.d["a_ci"], test_ci |-> fr.d["b_ci"],
                   diff_ci |-> fr.d["diff_ci"]]
    IN  IF a.readable THEN Return(fr, PyNone) ELSE Return(fr, result)

\* inputs of QuantileBootstrap.resample the model draws from
QuantileArgs ==
  { [samples |-> << <<1>>, <<2>> >>],
    [samples |-> << <<1>>, <<4, 2>> >>],
    [samples |-> << <<1>>, <<2>>, <<3>> >>] }

\* every pair of rank arrays the generator can return to this call, up to
\* the order of the trials; the second draw is not made when indexing with
\* the first has raised
QuantileDraws(dict, a) ==
  IF Len(a.samples) # 2 \/ ~QuantileLevelOk(dict["q"]) THEN {[a |-> <<>>, b |-> <<>>]}
  ELSE LET size == dict["n_resamples"]
           len_a == Len(a.samples[1])
           len_b == Len(a.samples[2])
           all_a == RankArrays(dict["q"], len_a + 1, size)
           all_b == RankArrays(dict["q"], len_b + 1, size)
           good_a == {r \in all_a : \A k \in 1..size : r[k] < len_a}
       IN  {r \in [a : good_a, b : all_b] :
              InTrialOrder([k \in 1..size |-> <<r.a[k], r.b[k]>>])}
           \cup {r \in [a : all_a \ good_a, b : {<<>>}] :
                   InTrialOrder([k \in 1..size |-> <<r.a[k]>>])}

----------------------------------------------------------------------------
(* ResamplingTtest.  A standard error is held as its square, which is exact:
   sem[i] stands for std[i]^2 / n[i] and delta_sem for sem[0]^2 + sem[1]^2. *)

\* std / n ** .5, squared
SemSquared(std, n) == RDiv(Int2Rat(std * std), Int2Rat(n))

\* st.t.rvs(loc, scale, df, size): ValueError unless df > 0 and scale >= 0
TRvsOk(scale_sq, df) == df > 0 /\ ~IsNaN(scale_sq) /\ RLe(RZero, scale_sq)

\* values st.t.rvs returns: loc when the scale is 0, else any real
TValues(loc, scale_sq) ==
  IF scale_sq = RZero THEN {Int2Rat(loc)} ELSE {Int2Rat(loc - 1), Int2Rat(loc + 1)}

\* self.<key> = st.t.rvs(loc=loc, scale=scale, df=df, size=self.n_resamples)
TSample(fr, key, scale_sq, df, draw) ==
  IF ~Running(fr) THEN fr
  ELSE IF ~TRvsOk(scale_sq, df) THEN Raise(fr, "ValueError")
  ELSE SetAttr(NpRandomDraw(fr, "t", <<scale_sq, df, fr.d["n_resamples"]>>), key, draw)

\* st.t.interval(confidence, loc, scale, df): the interval is held by its
\* arguments
TInterval(confidence, loc, scale_sq, df) ==
  [confidence |-> confidence, loc |-> loc, scale_sq |-> scale_sq, df |-> df]

\* st.t.cdf(x=0, loc, scale, df): nan for arguments outside the domain, 1/2
\* at the centre, and a value below or above 1/2 on either side of it
TCdfAtZero(loc, scale_sq, df) ==
  IF IsNaN(df) \/ ~RGt(df, RZero) \/ IsNaN(scale_sq) \/ ~RGt(scale_sq, RZero)
  THEN <<0, 0>>
  ELSE IF loc = 0 THEN Rat(1, 2)
  ELSE IF loc > 0 THEN Rat(1, 4)
  ELSE Rat(3, 4)

\* lines 862-865: self.n, self.sem, self.delta_mean and self.delta_sem
TtestMoments(fr, a) ==
  SetAttr(SetAttr(SetAttr(SetAttr(fr, "n", a.n),
                          "sem", <<SemSquared(a.std[1], a.n[1]),
                                   SemSquared(a.std[2], a.n[2])>>),
                  "delta_mean", a.mean[2] - a.mean[1]),
          "delta_sem", RAdd(SemSquared(a.std[1], a.n[1]), SemSquared(a.std[2], a.n[2])))

\* lines 869-870: the two draws
TtestSample(fr, a, draws) ==
  TSample(TSample(fr, "resample_a", SemSquared(a.std[1], a.n[1]), a.n[1] - 1, draws.a),
          "resample_b", SemSquared(a.std[2], a.n[2]), a.n[2] - 1, draws.b)

\* st.t.interval(confidence=self.confidence_level, ...) of arm i
TtestArmInterval(dict, a, i) ==
  TInterval(dict["confidence_level"], a.mean[i], SemSquared(a.std[i], a.n[i]),
            a.n[i] - 1)

\* lines 872-878: the uplift, the differences and the intervals
TtestIntervals(fr, a) ==
  SetCIOf(
    Assign(
      SetCIOf(
        Assign(
          Assign(
            Assign(SetAttr(fr, "uplift",
                           ComputeUplift(Int2Rat(a.mean[1]), Int2Rat(a.mean[2]))),
                   "diffs", ResampleDiffs),
            "a_ci", LAMBDA dict : TtestArmInterval(dict, a, 1)),
          "b_ci", LAMBDA dict : TtestArmInterval(dict, a, 2)),
        "diff_ci", "diffs"),
      "uplift_dist", ResampleUpliftDist),
    "uplift_ci", "uplift_dist")

\* ResamplingTtest.resample(mean, std, n); draws.a and draws.b are what the
\* two calls of st.t.rvs return
TtestResampleCall(fr, a, draws) ==
  IF Len(a.mean) # 2 \/ Len(a.std) # 2 \/ Len(a.n) # 2 THEN Raise(fr, "ValueError")
  ELSE GetTestParameters(
         TtestIntervals(
           TtestSample(NpRandomSeed(TtestMoments(fr, a), fr.d["random_state"]),
                       a, draws),
           a))

\* the degrees of freedom compute stores (lines 900-903)
TtestDf(dict, equal_var) ==
  IF equal_var THEN Int2Rat(dict["n"][1] + dict["n"][2] - 2)
  ELSE LET s == dict["sem"] IN
       RDiv(RMul(RAdd(s[1], s[2]), RAdd(s[1], s[2])),
            RAdd(RDiv(RMul(s[1], s[1]), Int2Rat(dict["n"][1] - 1)),
                 RDiv(RMul(s[2], s[2]), Int2Rat(dict["n"][2] - 1))))

\* the arguments of st.t.cdf at line 904: loc=self.delta_mean,
\* scale=self.delta_sem (as its square), df=self.df
TtestCdfArgs(dict) ==
  [loc |-> dict["delta_mean"], scale_sq |-> dict["delta_sem"], df |-> dict["df"]]

\* the p-value read off the two drawn arrays instead of the t distribution
TtestResultFromDraws(fr, a) ==
  IF \E k \in {"delta_mean", "delta_sem", "uplift", "uplift_ci", "a_ci", "b_ci",
               "diff_ci", "resample_a", "resample_b"} : ~Has(fr.d, k)
  THEN Raise(fr, "AttributeError")
  ELSE Return([fr EXCEPT !.local = [cdf |-> TtestCdfArgs(fr.d)]],
              IF a.readable THEN PyNone
              ELSE [pvalue |-> GetAlternativeValue(
                                 Rat(Cardinality({k \in 1..Len(fr.d["resample_a"]) :
                                        RLt(fr.d["resample_b"][k], fr.d["resample_a"][k])}),
                                     Len(fr.d["resample_a"])),
                                 a.two_sided),
                    uplift |-> fr.d["uplift"], uplift_ci |-> fr.d["uplift_ci"],
                    control_ci |-> fr.d["a_ci"], test_ci |-> fr.d["b_ci"],
                    diff_ci |-> fr.d["diff_ci"], df |-> fr.d["df"]])

\* lines 904-917: the p-value and the result of compute, self.df stored
TtestResult(fr, a) ==
  IF \E k \in {"delta_mean", "delta_sem", "uplift", "uplift_ci", "a_ci", "b_ci",
               "diff_ci"} : ~Has(fr.d, k)
  THEN Raise(fr, "AttributeError")
  ELSE Return([fr EXCEPT !.local = [cdf |-> TtestCdfArgs(fr.d)]],
              IF a.readable THEN PyNone
              ELSE [pvalue |-> GetAlternativeValue(
                                 TCdfAtZero(fr.d["delta_mean"], fr.d["delta_sem"],
                                            fr.d["df"]),
                                 a.two_sided),
                    uplift |-> fr.d["uplift"], uplift_ci |-> fr.d["uplift_ci"],
                    control_ci |-> fr.d["a_ci"], test_ci |-> fr.d["b_ci"],
                    diff_ci |-> fr.d["diff_ci"], df |-> fr.d["df"]])

\* ResamplingTtest.compute(two_sided, readable, equal_var)
TtestComputeCall(fr, a) ==
  IF ~Has(fr.d, "n") \/ (~a.equal_var /\ ~Has(fr.d, "sem"))
  THEN Raise(fr, "AttributeError")
  ELSE TtestResult(SetAttr(fr, "df", TtestDf(fr.d, a.equal_var)), a)

\* history: the summary inputs whose moments the session holds (lines
\* 862-865 run once the three lengths are accepted)
TtestGiven(run, a) ==
  IF Len(a.mean) # 2 \/ Len(a.std) # 2 \/ Len(a.n) # 2 THEN run
  ELSE [inputs |-> a]

\* inputs of ResamplingTtest.resample the model draws from
TtestArgs ==
  { \* unequal deviations and unequal sizes
    [mean |-> <<1, 1>>, std |-> <<1, 2>>, n |-> <<2, 3>>],
    [mean |-> <<1, 2>>, std |-> <<0, 0>>, n |-> <<2, 2>>],
    \* one observation in the control arm: no degree of freedom
    [mean |-> <<1, 2>>, std |-> <<1, 1>>, n |-> <<1, 2>>],
    [mean |-> <<1>>, std |-> <<1, 1>>, n |-> <<2, 2>>] }

TtestComputeArgs == [two_sided : BOOLEAN, readable : BOOLEAN, equal_var : BOOLEAN]

\* every pair of arrays st.t.rvs can return to this call, up to the order
\* of the trials
TtestDraws(dict, a) ==
  IF Len(a.mean) # 2 \/ Len(a.std) # 2 \/ Len(a.n) # 2 THEN {[a |-> <<>>, b |-> <<>>]}
  ELSE LET size == dict["n_resamples"]
           sa == SemSquared(a.std[1], a.n[1])
           sb == SemSquared(a.std[2], a.n[2])
       IN  IF ~TRvsOk(sa, a.n[1] - 1) THEN {[a |-> <<>>, b |-> <<>>]}
           ELSE IF ~TRvsOk(sb, a.n[2] - 1)
           THEN {x \in [a : [1..size -> TValues(a.mean[1], sa)], b : {<<>>}] :
                   InTrialOrder([k \in 1..size |-> x.a[k]])}
           ELSE {x \in [a : [1..size -> TValues(a.mean[1], sa)],
                        b : [1..size -> TValues(a.mean[2], sb)]] :
                   InTrialOrder([k \in 1..size |-> x.a[k] \o x.b[k]])}

----------------------------------------------------------------------------
(* permutation_ind *)

\* seed.permutation(indices): every order of the indices 0..size-1
IndexOrders(size) ==
  {p \in [1..size -> 0..(size - 1)] : \A i, j \in 1..size : p[i] = p[j] => i = j}

\* numerator and denominator paired row by row up to the shorter of the two
ZipStack(numerator, denominator) ==
  [k \in 1..(IF Len(numerator) < Len(denominator) THEN Len(numerator)
                                                   ELSE Len(denominator)) |->
     <<numerator[k], denominator[k]>>] \o <<>>

\* the ratio branch without its length test, the rows paired as zip pairs them
PermutationRatioStackZipped(fr, samples, func) ==
  [fr |-> fr, sample_a |-> ZipStack(samples[1], samples[2]),
   sample_b |-> ZipStack(samples[3], samples[4]), func |-> "ratio_func"]

\* permutation_ind, lines 1020-1033: the ratio branch
PermutationRatioStack(fr, samples, func) ==
  IF Len(samples[1]) # Len(samples[2]) \/ Len(samples[3]) # Len(samples[4])
  THEN [fr |-> Raise(fr, "ValueError"), sample_a |-> <<>>, sample_b |-> <<>>,
        func |-> func]
  ELSE [fr |-> fr, sample_a |-> ColumnStack(samples[1], samples[2]),
        sample_b |-> ColumnStack(samples[3], samples[4]), func |-> "ratio_func"]

\* permutation_ind, lines 1017-1038: the two samples and the statistic
PermutationPrepare(fr, a) ==
  IF Len(a.samples) = 2
  THEN [fr |-> fr, sample_a |-> a.samples[1], sample_b |-> a.samples[2],
        func |-> a.func]
  ELSE IF Len(a.samples) = 4
  THEN PermutationRatioStack(fr, a.samples, a.func)
  ELSE [fr |-> Raise(fr, "ValueError"), sample_a |-> <<>>, sample_b |-> <<>>,
        func |-> a.func]

\* a split whose second part starts one position early
PermutationSplitOverlapping(ids, combined, size_a) ==
  [perm_sample_a |-> Gather(combined, SubSeq(ids, 1, size_a)),
   perm_sample_b |-> Gather(combined, SubSeq(ids, size_a, Len(ids)))]

\* perm_sample_a = combined[ids[:size_a]], perm_sample_b = combined[ids[size_a:]]
\* (lines 1051-1052)
PermutationSplit(ids, combined, size_a) ==
  [perm_sample_a |-> Gather(combined, SubSeq(ids, 1, size_a)),
   perm_sample_b |-> Gather(combined, SubSeq(ids, size_a + 1, Len(ids)))]

\* return func(perm_sample_b) - func(perm_sample_a) (line 1053)
PermutationDiff(func, split) ==
  RSub(Stat(func, split.perm_sample_b), Stat(func, split.perm_sample_a))

\* _resample_func of permutation_ind (lines 1049-1053): one trial
PermutationTrial(ids, func, combined, size_a) ==
  PermutationDiff(func, PermutationSplit(ids, combined, size_a))

\* one call of _resample_func(seed) by the engine, ids being what
\* seed.permutation(indices) returns; the frame keeps the two partitions
PermutationTrialCall(fr, ids, func, combined, size_a) ==
  Return([fr EXCEPT !.local = PermutationSplit(ids, combined, size_a)],
         PermutationTrial(ids, func, combined, size_a))

\* every array the engine can return to this call of permutation_ind
PermutationEngineResults(a) ==
  LET pre == PermutationPrepare(Frame(EmptyDict), a)
      combined == pre.sample_a \o pre.sample_b
  IN  IF Running(pre.fr)
      THEN [1..a.n_resamples ->
              {PermutationTrial(ids, pre.func, combined, Len(pre.sample_a)) :
                 ids \in IndexOrders(Len(combined))}]
      ELSE {<<>>}

\* permutation_ind(*samples, func, confidence_level, n_resamples, two_sided,
\* n_jobs, random_state, progress_bar); rows is what pr.resample returns
PermutationIndCall(fr, a, rows) ==
  LET left_quant == RDiv(RSub(ROne, a.confidence_level), RTwo)
      right_quant == RSub(ROne, RDiv(RSub(ROne, a.confidence_level), RTwo))
      pre == PermutationPrepare(fr, a)
  IN  IF ~Running(pre.fr) THEN pre.fr
      ELSE
        LET observed_diff == RSub(Stat(pre.func, pre.sample_b),
                                  Stat(pre.func, pre.sample_a))
            uplift == RDiv(observed_diff, Stat(pre.func, pre.sample_a))
            f1 == EngineConstruct(pre.fr, a.n_resamples, a.random_state, a.n_jobs,
                                  a.progress_bar)
            f2 == EngineResample(f1, rows)
            p == Rat(Cardinality({k \in 1..Len(rows) : RGt(observed_diff, rows[k])}) + 1,
                     a.n_resamples + 1)
            pvalue == GetAlternativeValue(p, a.two_sided)
        IN  IF ~(QuantileLevelOk(left_quant) /\ QuantileLevelOk(right_quant))
            THEN Raise(f2, "ValueError")
            ELSE Return(f2, [pvalue |-> pvalue, uplift |-> uplift,
                             diff |-> observed_diff,
                             permutation_diff_ci |->
                               <<Quantile(rows, left_quant),
                                 Quantile(rows, right_quant)>>])

\* inputs of permutation_ind the model draws from
PermutationSamples ==
  { << <<1, 3>>, <<2>> >>,                          \* two samples
    << <<1, 1>>, <<1, 1>>, <<2>>, <<1>> >>,         \* ratio
    << <<1, 1>>, <<1>>, <<2>>, <<1>> >>,            \* ratio, arm A mismatched
    << <<1, 1>>, <<1, 1>>, <<2>>, <<1, 1>> >>,      \* ratio, arm B mismatched
    << <<1, 3>>, <<2>>, <<1>> >> }                  \* three arrays

\* inputs of the permutation_ind calls whose single trials are followed:
\* observations that differ from each other
PermutationTrialArgs ==
  [samples : { << <<1, 3>>, <<2>> >>,
               << <<1, 2>>, <<1, 3>>, <<2>>, <<1>> >>,
               << <<1, 2>>, <<1, 3>>, <<2, 5>>, <<1, 4>> >> },
   func : {"mean"}]

PermutationArgs ==
  [samples : PermutationSamples, func : {"mean"}, confidence_level : {Rat(1, 2)},
   n_resamples : ResampleCounts, two_sided : BOOLEAN, n_jobs : JobCounts,
   random_state : {"None"}, progress_bar : BOOLEAN]

----------------------------------------------------------------------------
(* The trials of one pr.resample(_resample_func), run by the engine's workers
   in any order.  The run is kept in the frame of the call in progress:
   closure holds what _resample_func refers to outside itself, gens[i] is
   what the generator of trial i returns, rows[i] the result of trial i once
   it has finished, order the trials in the order they finished, and session
   the session's __dict__ when the trials were dispatched. *)

\* the engine's contract: n trials, trial i called with the generator
\* derived for it from the master seed; the result array has one row per
\* trial, in the order of the trials
EngineRun(closure, gens, session) ==
  [closure |-> closure, gens |-> gens, session |-> session,
   rows |-> [i \in 1..Len(gens) |-> NoRet], order |-> <<>>]

\* the trials no worker has finished
EnginePending(run) ==
  {i \in 1..Len(run.gens) : \A k \in 1..Len(run.order) : run.order[k] # i}

\* trial i has finished with out: its row goes to position i of the array
EngineStep(run, i, out) ==
  [run EXCEPT !.closure = out.closure, !.rows[i] = out.row,
              !.order = Append(@, i)]

\* what Bootstrap.resample's _resample_func refers to: sample_a, sample_b,
\* size_a, size_b, ind and match_max_length of the enclosing call, and self
BootstrapClosure(pre, a) ==
  [sample_a |-> pre.sample_a, sample_b |-> pre.sample_b, ind |-> a.ind,
   match_max_length |-> a.match_max_length]

\* _resample_func(seed) of Bootstrap.resample on a worker (lines 606-608):
\* sample[ids] copies the rows it selects and self.func is read
BootstrapWorkerTrial(closure, dict, seed) ==
  [closure |-> closure, d |-> dict,
   row |-> ResampleFunc(seed, dict["func"], closure.sample_a, closure.sample_b,
                        closure.ind, closure.match_max_length)]

\* what permutation_ind's _resample_func refers to: indices, combined,
\* size_a and func of the enclosing call (lines 1043-1047)
PermutationClosure(pre) ==
  [combined |-> pre.sample_a \o pre.sample_b,
   indices |-> [k \in 1..(Len(pre.sample_a) + Len(pre.sample_b)) |-> k - 1],
   size_a |-> Len(pre.sample_a), func |-> pre.func]

\* a generator call that reorders its argument in place, as seed.shuffle
GeneratorShuffle(x, order) ==
  [result |-> [k \in 1..Len(order) |-> x[order[k] + 1]],
   array |-> [k \in 1..Len(order) |-> x[order[k] + 1]]]

\* seed.permutation(x) (line 1050): returns a reordered copy, x stays
GeneratorPermutation(x, order) == [result |-> Gather(x, order), array |-> x]

\* lines 1050-1053 with ids drawn
PermutationWorkerOut(closure, dict, p) ==
  [closure |-> [closure EXCEPT !.indices = p.array], d |-> dict,
   row |-> PermutationTrial(p.result, closure.func, closure.combined,
                            closure.size_a)]

\* _resample_func(seed) of permutation_ind on a worker (lines 1049-1053)
PermutationWorkerTrial(closure, dict, seed) ==
  PermutationWorkerOut(closure, dict, GeneratorPermutation(closure.indices, seed))

\* the call in progress: the engine has been built and its trials dispatched
Dispatched(a, fr, run) ==
  [Called("pr.resample", a, fr) EXCEPT !.local = run, !.returned = FALSE]

\* Bootstrap.resample after line 616: the array stored, lines 618-624
BootstrapGather(fr, rows) ==
  GetTestParameters(BootstrapIntervals(BootstrapStore(fr, rows), rows))

\* inputs of the runs whose trials are followed one by one
BootstrapOrderArgs ==
  [samples : { << <<1, 3>>, <<2>> >>,
               << <<1, 2>>, <<1, 3>>, <<2>>, <<1>> >> },
   match_max_length : {FALSE}, ind : {TRUE}]

PermutationOrderArgs ==
  [samples : { << <<1, 3>>, <<2>> >>,
               << <<1, 2>>, <<1, 3>>, <<2>>, <<1>> >> },
   func : {"mean"}, confidence_level : {Rat(1, 2)}, n_resamples : {MaxResamples},
   two_sided : {TRUE}, n_jobs : {-1}, random_state : {"None"},
   progress_bar : {FALSE}]

----------------------------------------------------------------------------
(* permutation_did *)

\* sorted(set(label))
RECURSIVE SortedSet(_)
SortedSet(S) ==
  IF S = {} THEN <<>>
  ELSE LET m == CHOOSE x \in S : \A y \in S : x <= y
       IN  <<m>> \o SortedSet(S \ {m})

SortedLabels(label) == SortedSet({label[k] : k \in 1..Len(label)})

\* np.sum(values[np.where((group_label == i) & (experiment_stage_label == j))])
DidCell(values, group_label, experiment_stage_label, i, j) ==
  Int2Rat(SumSeq([k \in 1..Len(values) |->
                    IF group_label[k] = i /\ experiment_stage_label[k] = j
                    THEN values[k] ELSE 0]))

\* _groupby (lines 1123-1129): one row per group, one column per stage
DidGroupbyOver(values, group_label, experiment_stage_label, groups, stages) ==
  [i \in 1..Len(groups) |->
     [j \in 1..Len(stages) |->
        DidCell(values, group_label, experiment_stage_label, groups[i], stages[j])]]

DidGroupby(values, group_label, experiment_stage_label) ==
  DidGroupbyOver(values, group_label, experiment_stage_label,
                 SortedLabels(group_label), SortedLabels(experiment_stage_label))

\* grouped_num / grouped_denom, element by element
DidRatio(grouped_num, grouped_denom) ==
  [i \in 1..Len(grouped_num) |->
     [j \in 1..Len(grouped_num[i]) |-> RDiv(grouped_num[i][j], grouped_denom[i][j])]]

\* _compute_did (lines 1131-1133)
DidCompute(grouped_data) ==
  RSub(RSub(grouped_data[2][2], grouped_data[2][1]),
       RSub(grouped_data[1][2], grouped_data[1][1]))

\* the statistic of the data under the group labels given (lines 1139, 1141,
\* 1143-1145, 1148-1150)
DidStat(a, group_label) ==
  IF a.ratio
  THEN DidCompute(DidRatio(DidGroupby(a.values[1], group_label,
                                      a.experiment_stage_label),
                           DidGroupby(a.values[2], group_label,
                                      a.experiment_stage_label)))
  ELSE DidCompute(DidGroupby(a.values[1], group_label, a.experiment_stage_label))

\* np.random.permutation(x): a reordered copy, x itself is left as it is;
\* order is the reordering the generator picks
NpRandomPermutation(x, order) == [result |-> Gather(x, order), array |-> x]

\* a trial that reorders the stage labels along with the group labels
DidTrialStatAllLabels(a, order) ==
  DidStat([a EXCEPT !.experiment_stage_label = Gather(@, order)],
          NpRandomPermutation(a.group_label, order).result)

\* one pass of the loop (lines 1140-1141, 1146-1150)
DidTrialStat(a, order) ==
  DidStat(a, NpRandomPermutation(a.group_label, order).result)

\* one pass of the loop with what it leaves of the arrays it reads
DidTrialCall(fr, a, order) ==
  Return([NpRandomDraw(fr, "permutation", <<a.group_label>>) EXCEPT
            !.local = [perm_data |-> NpRandomPermutation(a.group_label, order).result,
                       group_label |-> NpRandomPermutation(a.group_label, order).array]],
         DidTrialStat(a, order))

\* the size checks of lines 1104-1118
DidSizesOk(a) ==
  IF a.ratio
  THEN /\ Len(a.values[2]) = Len(a.values[1])
       /\ Len(a.values[1]) = Len(a.group_label)
       /\ Len(a.group_label) = Len(a.experiment_stage_label)
  ELSE /\ Len(a.values[1]) = Len(a.group_label)
       /\ Len(a.group_label) = Len(a.experiment_stage_label)

DidValidate(fr, a) ==
  IF Len(a.values) # (IF a.ratio THEN 2 ELSE 1) THEN Raise(fr, "ValueError")
  ELSE IF ~DidSizesOk(a) THEN Raise(fr, "ValueError")
  ELSE fr

\* _compute_did indexes two groups and two stages
DidTableOk(a) ==
  /\ Len(SortedLabels(a.group_label)) >= 2
  /\ Len(SortedLabels(a.experiment_stage_label)) >= 2

\* lines 1135-1155 once true_did and the trials' statistics are known
DidResult(fr, a, true_did, stat) ==
  Return([fr EXCEPT !.trials = Len(stat),
                    !.rng = @ \o [k \in 1..Len(stat) |->
                                    [op |-> "permutation", seed |-> "",
                                     params |-> <<a.group_label>>]]],
         [stat |-> true_did,
          pvalue |-> GetAlternativeValue(
                       Rat(Cardinality({k \in 1..Len(stat) : RGt(true_did, stat[k])}) + 1,
                           a.n_resamples + 1),
                       a.two_sided)])

\* lines 1135-1155
DidRun(fr, a, stat) ==
  IF ~Running(fr) THEN fr
  ELSE IF ~DidTableOk(a) THEN Raise(fr, "IndexError")
  ELSE DidResult(NpRandomSeed(fr, a.random_state), a, DidStat(a, a.group_label), stat)

\* permutation_did(*values, group_label, experiment_stage_label, ratio,
\* two_sided, n_resamples, random_state); stat is what the loop collects
PermutationDidCall(fr, a, stat) == DidRun(DidValidate(fr, a), a, stat)

\* every list the loop can collect
DidTrialStats(a) ==
  IF Running(DidValidate(Frame(EmptyDict), a)) /\ DidTableOk(a)
  THEN [1..a.n_resamples ->
          {DidTrialStat(a, order) : order \in IndexOrders(Len(a.group_label))}]
  ELSE {<<>>}

\* inputs of permutation_did the model draws from
DidData ==
  { [values |-> << <<1, 2, 3, 5>> >>, ratio |-> FALSE,
     group_label |-> <<0, 0, 1, 1>>, experiment_stage_label |-> <<0, 1, 0, 1>>],
    [values |-> << <<1, 2, 3, 5>>, <<1, 1, 2, 1>> >>, ratio |-> TRUE,
     group_label |-> <<0, 0, 1, 1>>, experiment_stage_label |-> <<0, 1, 0, 1>>],
    [values |-> << <<1, 2, 3>> >>, ratio |-> TRUE,
     group_label |-> <<0, 1, 1>>, experiment_stage_label |-> <<0, 0, 1>>],
    [values |-> << <<1, 2>> >>, ratio |-> FALSE,
     group_label |-> <<0, 1, 1>>, experiment_stage_label |-> <<0, 0, 1>>] }

DidArgs ==
  {data @@ rest : data \in DidData,
                  rest \in [two_sided : BOOLEAN, n_resamples : ResampleCounts,
                            random_state : {"None"}]}

----------------------------------------------------------------------------
(* stat_analysis.bootstrap_ci *)

Methods == {"percentile", "pivotal", "bca", "basic"}

\* func(sample[np.random.randint(0, sample_size, sample_size)]): every value
\* one pass of the loop can append
BootstrapStatValues(func, sample) ==
  {Stat(func, Gather(sample, ids)) : ids \in [1..Len(sample) -> 0..(Len(sample) - 1)]}

\* |a|
RAbs(a) == IF RLt(a, RZero) THEN RNeg(a) ELSE a

\* st.norm.ppf(p) and st.norm.cdf(z).  The normal quantiles are irrational, so
\* the pair is stood for by the quantile function t / (1 - |t|), t = 2p - 1,
\* and its inverse: exact on fractions, odd, increasing, 0 at p = 1/2 and
\* infinite at p = 0 and p = 1, nan outside [0, 1], as the normal pair is.
NormPpfOf(t) == RDiv(t, RSub(ROne, RAbs(t)))

NormPpf(p) ==
  IF IsNaN(p) \/ RLt(p, RZero) \/ RGt(p, ROne) THEN <<0, 0>>
  ELSE NormPpfOf(RSub(RMul(RTwo, p), ROne))

NormCdf(z) ==
  IF IsNaN(z) THEN <<0, 0>>
  ELSE IF ~IsFinite(z) THEN IF z[1] > 0 THEN ROne ELSE RZero
  ELSE RAdd(Rat(1, 2), RDiv(z, RMul(RTwo, RAdd(ROne, RAbs(z)))))

\* np.delete(sample, i) for the i-th element, counted from 1
Delete(sample, i) == SubSeq(sample, 1, i - 1) \o SubSeq(sample, i + 1, Len(sample))

\* replicates that leave no observation out
JackknifeStatsWhole(func, sample) ==
  [i \in 1..Len(sample) |-> Stat(func, sample)] \o <<>>

\* np.array([func(np.delete(sample, i)) for i in range(sample_size)])
JackknifeStats(func, sample) ==
  [i \in 1..Len(sample) |-> Stat(func, Delete(sample, i))] \o <<>>

\* np.mean(x)
RMean(x) == RDiv(RSum(x), Int2Rat(Len(x)))

\* x ** power for the powers 2 and 3
RPower(x, power) == IF power = 2 THEN RMul(x, x) ELSE RMul(x, RMul(x, x))

\* np.sum((m - x) ** power)
SumOfPowers(m, x, power) ==
  RSum([k \in 1..Len(x) |-> RPower(RSub(m, x[k]), power)])

\* z0 = st.norm.ppf(np.sum(bootstrap_stats < sample_stat) / n_resamples)
BiasCorrection(bootstrap_stats, sample_stat, n_resamples) ==
  NormPpf(Rat(Cardinality({k \in 1..Len(bootstrap_stats) :
                             RLt(bootstrap_stats[k], sample_stat)}),
              n_resamples))

\* acc = num / denom if denom != 0 else 0 (lines 296-300).  denom is
\* 6 * s ** (3/2), irrational in general, so acc is held by its sign and its
\* square num^2 / (36 s^3); acc is 0 exactly when the square is.
AccelerationOf(num, s) ==
  IF s = RZero THEN [sign |-> 0, square |-> RZero]
  ELSE [sign |-> Sign(num[1]),
        square |-> RDiv(RMul(num, num),
                        RMul(Int2Rat(36), RMul(s, RMul(s, s))))]

\* num and s are sums of powers about the mean m of the replicates
AccelerationAbout(m, jackknife_stats) ==
  AccelerationOf(SumOfPowers(m, jackknife_stats, 3),
                 SumOfPowers(m, jackknife_stats, 2))

Acceleration(jackknife_stats) ==
  AccelerationAbout(RMean(jackknife_stats), jackknife_stats)

\* the level the unparenthesised formula z0 + (z0 + ppf) / (1 - acc) * (z0 + ppf)
\* gives
AdjustedLevelLoose(z0, acc, ppf) ==
  IF acc.square = RZero
  THEN NormCdf(RAdd(z0, RMul(RDiv(RAdd(z0, ppf), RSub(ROne, RZero)),
                             RAdd(z0, ppf))))
  ELSE [cdf_of |-> <<z0, acc, ppf>>]

\* st.norm.cdf(z0 + (z0 + ppf) / (1 - acc * (z0 + ppf))) (lines 302-303);
\* with an irrational acc the level is held by what it is computed from
AdjustedLevel(z0, acc, ppf) ==
  IF acc.square = RZero
  THEN NormCdf(RAdd(z0, RDiv(RAdd(z0, ppf),
                             RSub(ROne, RMul(RZero, RAdd(z0, ppf))))))
  ELSE [cdf_of |-> <<z0, acc, ppf>>]

\* a_1 and a_2 (lines 302-303)
BcaLevels(z0, acc, ppf_lower, ppf_upper) ==
  [z0 |-> z0, acc |-> acc,
   a_1 |-> AdjustedLevel(z0, acc, ppf_lower),
   a_2 |-> AdjustedLevel(z0, acc, ppf_upper)]

\* the locals of the bca branch (lines 294-303)
BcaLocals(a, bootstrap_stats, lower, upper) ==
  BcaLevels(BiasCorrection(bootstrap_stats, Stat(a.func, a.sample), a.n_resamples),
            Acceleration(JackknifeStats(a.func, a.sample)),
            NormPpf(lower), NormPpf(upper))

\* result = tuple(np.quantile(bootstrap_stats, q=[a_1, a_2])) (line 304)
BcaInterval(fr, bootstrap_stats, loc) ==
  IF loc.acc.square # RZero
  THEN Return(fr, [bca_of |-> bootstrap_stats, levels |-> <<loc.a_1, loc.a_2>>])
  ELSE IF ~(QuantileLevelOk(loc.a_1) /\ QuantileLevelOk(loc.a_2))
  THEN Raise(fr, "ValueError")
  ELSE Return(fr, <<Quantile(bootstrap_stats, loc.a_1),
                    Quantile(bootstrap_stats, loc.a_2)>>)

\* the bca branch with its locals kept in the frame
BcaBranch(fr, bootstrap_stats, loc) ==
  BcaInterval([fr EXCEPT !.local = loc @@ @], bootstrap_stats, loc)

\* (1 - confidence_level) / 2 and 1 - (1 - confidence_level) / 2
LowerLevel(confidence_level) == RDiv(RSub(ROne, confidence_level), RTwo)

UpperLevel(confidence_level) ==
  RSub(ROne, RDiv(RSub(ROne, confidence_level), RTwo))

\* tuple(np.quantile(stats, q=[lower, upper]))
QuantilePair(fr, stats, lower, upper) ==
  IF QuantileLevelOk(lower) /\ QuantileLevelOk(upper)
  THEN Return(fr, <<Quantile(stats, lower), Quantile(stats, upper)>>)
  ELSE Raise(fr, "ValueError")

\* 2 * sample_stat - bootstrap_stats
Pivot(sample_stat, bootstrap_stats) ==
  [k \in 1..Len(bootstrap_stats) |->
     RSub(RMul(RTwo, sample_stat), bootstrap_stats[k])]

\* the loop of lines 284-287 has run before the method is looked at;
\* fr.local keeps the locals of the call
BootstrapCILoop(fr, a, bootstrap_stats) ==
  [NpRandomSeed(fr, a.random_state) EXCEPT
     !.trials = Len(bootstrap_stats),
     !.rng = @ \o [k \in 1..Len(bootstrap_stats) |->
                     [op |-> "randint", seed |-> "",
                      params |-> <<0, Len(a.sample), Len(a.sample)>>]],
     !.local = [bootstrap_stats |-> bootstrap_stats]]

\* the if / elif chain over method (lines 289-306)
BootstrapCIMethod(fr, a, bootstrap_stats, lower, upper) ==
  IF a.method = "percentile"
  THEN QuantilePair(fr, bootstrap_stats, lower, upper)
  ELSE IF a.method = "pivotal"
  THEN QuantilePair(fr, Pivot(Stat(a.func, a.sample), bootstrap_stats),
                    lower, upper)
  ELSE IF a.method = "bca"
  THEN BcaBranch(fr, bootstrap_stats, BcaLocals(a, bootstrap_stats, lower, upper))
  ELSE Raise(fr, "ValueError")

\* the return statement (line 308)
BootstrapCIResult(fr, a, bootstrap_stats) ==
  IF ~Running(fr) THEN fr
  ELSE IF a.return_dist
  THEN Return(fr, [result |-> fr.ret, dist |-> bootstrap_stats])
  ELSE Return(fr, [result |-> fr.ret])

\* bootstrap_ci(sample, func, confidence_level, n_resamples, method,
\* return_dist, progress_bar, random_state); bootstrap_stats is what the loop
\* of lines 284-287 collects
BootstrapCICall(fr, a, bootstrap_stats) ==
  BootstrapCIResult(
    BootstrapCIMethod(BootstrapCILoop(fr, a, bootstrap_stats), a, bootstrap_stats,
                      LowerLevel(a.confidence_level),
                      UpperLevel(a.confidence_level)),
    a, bootstrap_stats)

\* return {'estim': estim, 'bias': bias, 'se': se, 'ci': ...} (line 243).
\* se is a square root, so it is held by its square, and the interval
\* estim -+ z * se by its parts.
JackknifeReturn(fr, z, jackknife_stats, estim, bias, se_squared) ==
  Return([fr EXCEPT !.local = [jackknife_stats |-> jackknife_stats]],
         [estim |-> estim, bias |-> bias, se_squared |-> se_squared,
          ci |-> [estim |-> estim, z |-> z, se_squared |-> se_squared]])

\* estim = stat - bias (line 241)
JackknifeCorrect(fr, z, stat, jackknife_stats, bias, se_squared) ==
  JackknifeReturn(fr, z, jackknife_stats, RSub(stat, bias), bias, se_squared)

\* bias and se from the mean of the replicates (lines 239-242)
JackknifeMoments(fr, sample_size, z, stat, jackknife_stats, mean_jacknife_stat) ==
  JackknifeCorrect(fr, z, stat, jackknife_stats,
                   RMul(Int2Rat(sample_size - 1), RSub(mean_jacknife_stat, stat)),
                   RMul(Int2Rat(sample_size - 1),
                        RDiv(SumOfPowers(mean_jacknife_stat, jackknife_stats, 2),
                             Int2Rat(sample_size))))

\* the replicates (line 238)
JackknifeReplicated(fr, sample_size, z, stat, jackknife_stats) ==
  JackknifeMoments(fr, sample_size, z, stat, jackknife_stats,
                   RMean(jackknife_stats))

\* jackknife_estim(sample, func, confidence_level)
JackknifeEstimCall(fr, a) ==
  JackknifeReplicated(fr, Len(a.sample), NormPpf(UpperLevel(a.confidence_level)),
                      Stat(a.func, a.sample), JackknifeStats(a.func, a.sample))

\* inputs of jackknife_estim the model draws from
JackknifeArgs ==
  [sample : {<<5>>, <<1, 3>>, <<1, 2, 4>>}, func : Funcs,
   confidence_level : {Rat(1, 2)}]

\* inputs of bootstrap_ci the model draws from
BootstrapCIArgs ==
  [sample : {<<1, 3>>}, func : {"mean"}, confidence_level : {Rat(1, 2)},
   n_resamples : ResampleCounts, method : Methods, return_dist : BOOLEAN,
   progress_bar : BOOLEAN, random_state : {"None"}]

----------------------------------------------------------------------------
(* get_charts.  The calls on seaborn and matplotlib draw from the arrays they
   are given and touch no attribute of the session; what the model keeps of
   a get_charts is the attributes it looks up on self, in the order of the
   code. *)

\* the names defined by class ParentTestInterface and its subclasses
ClassAttributes ==
  {"__init__", "__setattr__", "_compute_confidence_bounds", "_compute_ci",
   "_compute_uplift", "get_test_parameters", "_get_alternative_value",
   "_get_readable_format", "_metric_distributions_chart",
   "_uplift_distribution_chart", "resample", "compute", "get_charts"}

\* self.<name>: the instance's __dict__, then the class
GetAttr(fr, name) ==
  IF ~Running(fr) THEN fr
  ELSE IF Has(fr.d, name) \/ name \in ClassAttributes THEN fr
  ELSE Raise(fr, "AttributeError")

RECURSIVE GetAttrs(_, _)
GetAttrs(fr, names) ==
  IF Len(names) = 0 THEN fr
  ELSE GetAttrs(GetAttr(fr, Head(names)), Tail(names))

\* np.min([x, y]), np.max([x, y]): the two arrays must have one length
StackedExtremes(fr, x, y) ==
  IF ~Running(fr) THEN fr
  ELSE IF Len(fr.d[x]) # Len(fr.d[y]) THEN Raise(fr, "ValueError")
  ELSE fr

\* BayesBeta.get_charts
BayesBetaGetCharts(fr) ==
  Return(
    GetAttrs(
      StackedExtremes(
        GetAttrs(fr, <<"_metric_distributions_chart", "beta_control", "beta_test",
                       "beta_control", "beta_test", "beta_control", "beta_test">>),
        "beta_control", "beta_test"),
      <<"beta_control", "beta_test",
        "_uplift_distribution_chart", "uplift_dist", "uplift">>),
    PyNone)

\* Bootstrap.get_charts
BootstrapGetCharts(fr) ==
  Return(GetAttrs(fr, <<"_metric_distributions_chart", "_resample_data",
                        "_resample_data", "func", "diffs", "func",
                        "_uplift_distribution_chart", "uplift_dist", "uplift">>),
         PyNone)

\* QuantileBootstrap.get_charts
QuantileGetCharts(fr) ==
  Return(GetAttrs(fr, <<"_metric_distributions_chart", "resample_a", "resample_b",
                        "q", "diffs", "q",
                        "_uplift_distribtuion_chart", "uplift_dist", "uplift">>),
         PyNone)

\* ResamplingTtest.get_charts
TtestGetCharts(fr) ==
  Return(GetAttrs(fr, <<"_metric_distributions_chart", "resample_a", "resample_b",
                        "diffs",
                        "_uplift_distribtuion_chart", "uplift_dist", "uplift">>),
         PyNone)

GetChartsCall(c, fr) ==
  IF c = "BayesBeta" THEN BayesBetaGetCharts(fr)
  ELSE IF c = "Bootstrap" THEN BootstrapGetCharts(fr)
  ELSE IF c = "QuantileBootstrap" THEN QuantileGetCharts(fr)
  ELSE TtestGetCharts(fr)

----------------------------------------------------------------------------
(* Sessions: the Configured state and the calls on a session *)

\* The Configured state of a session: every constructor argument stored
\* (progress_bar forced to False when n_jobs != 1, line 526), the quantile
\* bounds of line 53, and init_items the copy of __dict__ of line 20.
\* It is the state the assignments of the constructors describe.  The
\* constructors themselves do not reach it (CtorSpec: the first write
\* raises AttributeError at line 45), so Spec takes it as given and follows
\* the calls on a session from there.
ConfiguredDict(c, a) ==
  LET alpha == RSub(ROne, a.confidence_level)
      bounds == [left_quant |-> RDiv(alpha, RTwo),
                 right_quant |-> RSub(ROne, RDiv(alpha, RTwo))]
      stored == IF c = "Bootstrap"
                THEN [a EXCEPT !.progress_bar = IF a.n_jobs # 1 THEN FALSE ELSE @]
                ELSE a
      fields == bounds @@ stored
  IN  Put(fields, "init_items", fields)

\* values the caller assigns to an attribute of a session
WritableValues(c) ==
  LET common == [confidence_level |-> ConfLevels, n_resamples |-> ResampleCounts]
      own == [n_jobs |-> JobCounts, progress_bar |-> BOOLEAN]
  IN  IF c = "Bootstrap"
      THEN own @@ common
      ELSE common

\* the sessions the model follows: one seed and one statistic stand for the
\* constructor arguments that no operation of a session branches on
SessionArgs(c) ==
  {a \in CtorArgs(c) :
     a.random_state = "42" /\ ("func" \in DOMAIN a => a.func = "mean")}

\* the module's functions that keep no state between calls
Functions == {"permutation_ind", "permutation_did", "bootstrap_ci", "jackknife_estim"}

Init ==
  /\ cls \in Strategies \cup Functions
  /\ IF cls \in Strategies
     THEN \E a \in SessionArgs(cls) : d = ConfiguredDict(cls, a)
     ELSE d = EmptyDict
  /\ call = NoCall
  /\ resampled = FALSE
  /\ ref = NoRun

\* the caller is between two calls
Idle == call.op = "none"

\* the caller drops the value or the exception of its last call and goes on;
\* a call whose trials are with the workers has not come back yet
Continue ==
  /\ ~Idle
  /\ call.op # "pr.resample"
  /\ call' = NoCall
  /\ UNCHANGED <<cls, d, resampled, ref>>

\* session.<key> = value
SetAttribute ==
  /\ Idle
  /\ cls \in Strategies
  /\ \E key \in DOMAIN WritableValues(cls) :
     \E value \in WritableValues(cls)[key] :
       LET fr == SetAttr(Frame(d), key, value) IN
       /\ d' = fr.d
       /\ call' = Called("__setattr__", [key |-> key, value |-> value], fr)
  /\ UNCHANGED <<cls, resampled, ref>>

BootstrapResample ==
  /\ Idle
  /\ cls = "Bootstrap"
  /\ \E a \in BootstrapArgs :
     \E rows \in BootstrapEngineResults(d, a) :
       LET fr == BootstrapResampleCall(Frame(d), a, rows) IN
       /\ d' = fr.d
       /\ call' = Called("resample", a, fr)
       /\ resampled' = (resampled \/ fr.exc = "none")
  /\ UNCHANGED <<cls, ref>>

BootstrapCompute ==
  /\ Idle
  /\ cls = "Bootstrap"
  /\ \E a \in ComputeArgs :
       LET fr == BootstrapComputeCall(Frame(d), a) IN
       /\ d' = fr.d
       /\ call' = Called("compute", a, fr)
  /\ UNCHANGED <<cls, resampled, ref>>

BayesBetaResample ==
  /\ Idle
  /\ cls = "BayesBeta"
  /\ \E a \in BayesBetaArgs :
     \E draws \in BayesBetaDraws(d, a) :
       LET fr == BayesBetaResampleCall(Frame(d), a, draws) IN
       /\ d' = fr.d
       /\ call' = Called("resample", a, fr)
       /\ resampled' = (resampled \/ fr.exc = "none")
  /\ UNCHANGED <<cls, ref>>

BayesBetaCompute ==
  /\ Idle
  /\ cls = "BayesBeta"
  /\ \E a \in ComputeArgs :
       LET fr == BayesBetaComputeCall(Frame(d), a) IN
       /\ d' = fr.d
       /\ call' = Called("compute", a, fr)
  /\ UNCHANGED <<cls, resampled, ref>>

\* one run of QuantileBootstrap.resample on the session
QuantileRun(a, ranks) ==
  LET fr == QuantileResampleCall(Frame(d), a, ranks) IN
  /\ Reproduces(ref, fr.rng, ranks)
  /\ d' = fr.d
  /\ call' = Called("resample", a, fr)
  /\ resampled' = (resampled \/ fr.exc = "none")

QuantileResample ==
  /\ Idle
  /\ cls = "QuantileBootstrap"
  /\ \E a \in QuantileArgs :
     \E ranks \in QuantileDraws(d, a) : QuantileRun(a, ranks)
  /\ UNCHANGED <<cls, ref>>

\* the inputs of the runs that are compared: two pairs of samples of the
\* same lengths
SeedArgs ==
  { [samples |-> << <<1>>, <<2>> >>],
    [samples |-> << <<1>>, <<3>> >>] }

\* a run of QuantileBootstrap.resample that is kept for comparison
QuantileReference ==
  /\ Idle
  /\ cls = "QuantileBootstrap"
  /\ ref = NoRun
  /\ \E a \in SeedArgs :
     \E ranks \in QuantileDraws(d, a) :
       /\ QuantileRun(a, ranks)
       /\ ref' = RunRecord(a, ranks, QuantileResampleCall(Frame(d), a, ranks))
  /\ UNCHANGED cls

\* a run of QuantileBootstrap.resample that is compared with the kept one
QuantileRepeat ==
  /\ Idle
  /\ cls = "QuantileBootstrap"
  /\ \E a \in SeedArgs :
     \E ranks \in QuantileDraws(d, a) :
       /\ QuantileRun(a, ranks)
       /\ ref' = Followed(ref, a, d)
  /\ UNCHANGED cls

QuantileCompute ==
  /\ Idle
  /\ cls = "QuantileBootstrap"
  /\ \E a \in ComputeArgs :
       LET fr == QuantileComputeCall(Frame(d), a) IN
       /\ d' = fr.d
       /\ call' = Called("compute", a, fr)
  /\ UNCHANGED <<cls, resampled, ref>>

TtestResample ==
  /\ Idle
  /\ cls = "ResamplingTtest"
  /\ \E a \in TtestArgs :
     \E draws \in TtestDraws(d, a) :
       LET fr == TtestResampleCall(Frame(d), a, draws) IN
       /\ d' = fr.d
       /\ call' = Called("resample", a, fr)
       /\ resampled' = (resampled \/ fr.exc = "none")
       /\ ref' = TtestGiven(ref, a)
  /\ UNCHANGED cls

TtestCompute ==
  /\ Idle
  /\ cls = "ResamplingTtest"
  /\ \E a \in TtestComputeArgs :
       LET fr == TtestComputeCall(Frame(d), a) IN
       /\ d' = fr.d
       /\ call' = Called("compute", a, fr)
  /\ UNCHANGED <<cls, resampled, ref>>

\* a call of the function permutation_ind
PermutationInd ==
  /\ Idle
  /\ cls = "permutation_ind"
  /\ \E a \in PermutationArgs :
     \E rows \in PermutationEngineResults(a) :
       LET fr == PermutationIndCall(Frame(d), a, rows) IN
       /\ d' = fr.d
       /\ call' = Called("permutation_ind", a, fr)
  /\ UNCHANGED <<cls, resampled, ref>>

\* a call of the function bootstrap_ci
BootstrapCI ==
  /\ Idle
  /\ cls = "bootstrap_ci"
  /\ \E a \in BootstrapCIArgs :
     \E stats \in [1..a.n_resamples -> BootstrapStatValues(a.func, a.sample)] :
       LET fr == BootstrapCICall(Frame(d), a, stats) IN
       /\ d' = fr.d
       /\ call' = Called("bootstrap_ci", a, fr)
  /\ UNCHANGED <<cls, resampled, ref>>

\* one trial of a Bootstrap.resample in progress: the call has passed lines
\* 579-604 and the engine calls _resample_func with the trial's generator
BootstrapTrial ==
  /\ Idle
  /\ cls = "Bootstrap"
  /\ \E a \in TrialArgs :
       LET pre == BootstrapPrepare(Frame(d), a) IN
       /\ Running(pre.fr)
       /\ \E seed \in TrialDraws(Len(pre.sample_a), Len(pre.sample_b),
                                 a.match_max_length) :
            LET fr == BootstrapTrialCall(pre.fr, seed, pre.sample_a, pre.sample_b,
                                         a.ind, a.match_max_length) IN
            /\ d' = fr.d
            /\ call' = Called("_resample_func", [seed |-> seed] @@ a, fr)
  /\ UNCHANGED <<cls, resampled, ref>>

\* one trial of a permutation_ind in progress: the call has passed lines
\* 1017-1047 and the engine calls _resample_func with the trial's generator
PermutationIndTrial ==
  /\ Idle
  /\ cls = "permutation_ind"
  /\ \E a \in PermutationTrialArgs :
       LET pre == PermutationPrepare(Frame(d), a) IN
       /\ Running(pre.fr)
       /\ \E ids \in IndexOrders(Len(pre.sample_a) + Len(pre.sample_b)) :
            LET fr == PermutationTrialCall(pre.fr, ids, pre.func,
                                           pre.sample_a \o pre.sample_b,
                                           Len(pre.sample_a)) IN
            /\ d' = fr.d
            /\ call' = Called("_resample_func", [ids |-> ids] @@ a, fr)
  /\ UNCHANGED <<cls, resampled, ref>>

\* Bootstrap.resample up to line 616: the samples prepared, the engine built
\* and its trials handed to the workers
BootstrapDispatch ==
  /\ Idle
  /\ cls = "Bootstrap"
  /\ \E a \in BootstrapOrderArgs :
       /\ Running(BootstrapPrepare(Frame(d), a).fr)
       /\ \E gens \in [1..d["n_resamples"] ->
                         TrialDraws(Len(BootstrapPrepare(Frame(d), a).sample_a),
                                    Len(BootstrapPrepare(Frame(d), a).sample_b),
                                    a.match_max_length)] :
            /\ d' = BootstrapPrepare(Frame(d), a).fr.d
            /\ call' = Dispatched(a, BootstrapEngine(BootstrapPrepare(Frame(d), a).fr),
                                  EngineRun(BootstrapClosure(BootstrapPrepare(Frame(d), a), a),
                                            gens, d'))
  /\ UNCHANGED <<cls, resampled, ref>>

\* permutation_ind up to line 1056
PermutationDispatch ==
  /\ Idle
  /\ cls = "permutation_ind"
  /\ \E a \in PermutationOrderArgs :
       /\ Running(PermutationPrepare(Frame(d), a).fr)
       /\ \E gens \in [1..a.n_resamples ->
                         IndexOrders(Len(PermutationClosure(
                                           PermutationPrepare(Frame(d), a)).combined))] :
            call' = Dispatched(a, EngineConstruct(PermutationPrepare(Frame(d), a).fr,
                                                  a.n_resamples, a.random_state,
                                                  a.n_jobs, a.progress_bar),
                               EngineRun(PermutationClosure(PermutationPrepare(Frame(d), a)),
                                         gens, d))
  /\ UNCHANGED <<cls, d, resampled, ref>>

\* the trial, on a worker, of the call in progress
WorkerOut(i) ==
  IF cls = "Bootstrap"
  THEN BootstrapWorkerTrial(call.local.closure, d, call.local.gens[i])
  ELSE PermutationWorkerTrial(call.local.closure, d, call.local.gens[i])

\* a worker runs one of the trials that are left, whichever
WorkerTrial ==
  /\ call.op = "pr.resample"
  /\ \E i \in EnginePending(call.local) :
       /\ d' = WorkerOut(i).d
       /\ call' = [call EXCEPT !.local = EngineStep(@, i, WorkerOut(i))]
  /\ UNCHANGED <<cls, resampled, ref>>

\* every trial has finished: pr.resample returns the array and the call
\* runs to its end
EngineGather ==
  /\ call.op = "pr.resample"
  /\ EnginePending(call.local) = {}
  /\ IF cls = "Bootstrap"
     THEN /\ d' = BootstrapGather([Frame(d) EXCEPT !.eng = call.eng,
                                                   !.local = call.local],
                                  call.local.rows).d
          /\ call' = Called("resample", call.args,
                            BootstrapGather([Frame(d) EXCEPT !.eng = call.eng,
                                                             !.local = call.local],
                                            call.local.rows))
          /\ resampled' = TRUE
     ELSE /\ d' = d
          /\ call' = [Called("permutation_ind", call.args,
                             PermutationIndCall(Frame(d), call.args, call.local.rows))
                        EXCEPT !.local = call.local]
          /\ UNCHANGED resampled
  /\ UNCHANGED <<cls, ref>>

\* a call of the function permutation_did
PermutationDid ==
  /\ Idle
  /\ cls = "permutation_did"
  /\ \E a \in DidArgs :
     \E stat \in DidTrialStats(a) :
       LET fr == PermutationDidCall(Frame(d), a, stat) IN
       /\ d' = fr.d
       /\ call' = Called("permutation_did", a, fr)
  /\ UNCHANGED <<cls, resampled, ref>>

\* one pass of the loop of a permutation_did in progress
PermutationDidTrial ==
  /\ Idle
  /\ cls = "permutation_did"
  /\ \E a \in DidArgs :
       /\ a.n_resamples = 1
       /\ a.two_sided
       /\ Running(DidValidate(Frame(d), a))
       /\ DidTableOk(a)
       /\ \E order \in IndexOrders(Len(a.group_label)) :
            LET fr == DidTrialCall(NpRandomSeed(Frame(d), a.random_state), a, order) IN
            /\ d' = fr.d
            /\ call' = Called("permutation_did trial", [order |-> order] @@ a, fr)
  /\ UNCHANGED <<cls, resampled, ref>>

\* a call of the function jackknife_estim
JackknifeEstim ==
  /\ Idle
  /\ cls = "jackknife_estim"
  /\ \E a \in JackknifeArgs :
       LET fr == JackknifeEstimCall(Frame(d), a) IN
       /\ d' = fr.d
       /\ call' = Called("jackknife_estim", a, fr)
  /\ UNCHANGED <<cls, resampled, ref>>

\* session.get_charts()
GetCharts ==
  /\ Idle
  /\ cls \in Strategies
  /\ LET fr == GetChartsCall(cls, Frame(d)) IN
     /\ d' = fr.d
     /\ call' = Called("get_charts", EmptyDict, fr)
  /\ UNCHANGED <<cls, resampled, ref>>

Next ==
  \/ Continue
  \/ SetAttribute
  \/ GetCharts
  \/ BayesBetaResample
  \/ BayesBetaCompute
  \/ BootstrapResample
  \/ BootstrapCompute
  \/ QuantileResample
  \/ QuantileCompute
  \/ TtestResample
  \/ TtestCompute
  \/ PermutationInd
  \/ PermutationDid
  \/ BootstrapCI
  \/ JackknifeEstim

Spec == Init /\ [][Next]_vars

\* values a caller may write to confidence_level, inside and outside (0, 1)
AnyLevels == ConfLevels \cup {RZero, ROne, Rat(3, 2)}

\* session.confidence_level = value
SetConfidenceLevel ==
  /\ Idle
  /\ cls \in Strategies
  /\ \E value \in AnyLevels :
       LET fr == SetAttr(Frame(d), "confidence_level", value) IN
       /\ d' = fr.d
       /\ call' = Called("__setattr__",
                         [key |-> "confidence_level", value |-> value], fr)
  /\ UNCHANGED <<cls, resampled, ref>>

LevelNext ==
  \/ Continue
  \/ SetConfidenceLevel

\* sessions under writes of any confidence level
LevelSpec == Init /\ [][LevelNext]_vars

\* Single trials of the resampling loops: of resample on one Bootstrap
\* session, of permutation_ind and of permutation_did.
TrialInit ==
  /\ Init
  /\ \/ /\ cls = "Bootstrap"
        /\ d["confidence_level"] = Rat(1, 2)
        /\ d["n_resamples"] = 1
        /\ d["n_jobs"] = 1
        /\ ~d["progress_bar"]
     \/ cls \in {"permutation_ind", "permutation_did"}

TrialNext ==
  \/ Continue
  \/ BootstrapTrial
  \/ PermutationIndTrial
  \/ PermutationDidTrial

TrialSpec == TrialInit /\ [][TrialNext]_vars

\* ResamplingTtest sessions of every seed and resample count, at one level
TtestInit ==
  /\ cls = "ResamplingTtest"
  /\ \E a \in CtorArgs(cls) :
       /\ a.confidence_level = Rat(1, 2)
       /\ d = ConfiguredDict(cls, a)
  /\ call = NoCall
  /\ resampled = FALSE
  /\ ref = NoRun

TtestNext ==
  \/ Continue
  \/ TtestResample
  \/ TtestCompute

TtestSpec == TtestInit /\ [][TtestNext]_vars

\* Runs of the engine inside one Bootstrap.resample or one permutation_ind,
\* the trials finishing in any order
OrderInit ==
  /\ Init
  /\ \/ /\ cls = "Bootstrap"
        /\ d["confidence_level"] = Rat(1, 2)
        /\ d["n_resamples"] = MaxResamples
        /\ d["n_jobs"] = -1
     \/ cls = "permutation_ind"

OrderNext ==
  \/ Continue
  \/ BootstrapDispatch
  \/ PermutationDispatch
  \/ WorkerTrial
  \/ EngineGather

OrderSpec == OrderInit /\ [][OrderNext]_vars

\* the runs of QuantileBootstrap.resample on one session, one of them kept
SeedInit ==
  /\ Init
  /\ cls = "QuantileBootstrap"
  /\ d["confidence_level"] = Rat(1, 2)

\* session.n_resamples = value
SetResampleCount == SetAttribute /\ call'.args.key = "n_resamples"

SeedNext ==
  \/ Continue
  \/ SetResampleCount
  \/ QuantileReference
  \/ QuantileRepeat

SeedSpec == SeedInit /\ [][SeedNext]_vars

----------------------------------------------------------------------------
(* Claims *)

\* C1: constructing a session of any strategy with a confidence_level in
\* (0,1) completes without raising and leaves every configuration field
\* stored, with left_quant = alpha/2 and right_quant = 1 - alpha/2.
ConstructionCompletes ==
  call.op = "__init__" =>
    /\ call.exc = "none"
    /\ \A k \in DOMAIN call.args \ {"progress_bar"} :
         Has(d, k) /\ d[k] = call.args[k]
    /\ Has(d, "left_quant") /\ Has(d, "right_quant")
    /\ d["left_quant"] = RDiv(RSub(ROne, call.args.confidence_level), RTwo)
    /\ d["right_quant"] = RSub(ROne, d["left_quant"])

\* the samples of the last call, a Bootstrap.resample or a permutation_ind
RatioCall ==
  /\ \/ (cls = "Bootstrap" /\ call.op = "resample")
     \/ call.op = "permutation_ind"
  /\ Len(call.args.samples) = 4

SignificanceOf(ret) ==
  IF Has(ret, "pvalue") THEN ret["pvalue"] ELSE ret["proba"]

ProgressOffWhenParallel ==
  /\ cls = "Bootstrap" => (d["n_jobs"] # 1 => d["progress_bar"] = FALSE)
  /\ (call.op \in {"resample", "permutation_ind"} /\ call.eng.built
      /\ call.eng.n_jobs # 1) => ~call.eng.progress_bar

RatioLengthsRejected ==
  (/\ RatioCall
   /\ \/ Len(call.args.samples[1]) # Len(call.args.samples[2])
      \/ Len(call.args.samples[3]) # Len(call.args.samples[4]))
  => call.exc = "ValueError" /\ call.trials = 0 /\ ~call.eng.built

\* permutation_ind refused a treatment arm whose denominator is longer
\* than its numerator
RatioArmRefused ==
  /\ call.op = "permutation_ind"
  /\ Len(call.args.samples) = 4
  /\ Len(call.args.samples[1]) = Len(call.args.samples[2])
  /\ Len(call.args.samples[3]) # Len(call.args.samples[4])
  /\ call.exc = "ValueError"

\* C10: bootstrap_ci validates method before it runs any resampling trial:
\* a call with an unknown method raises ValueError with no trial run.
MethodCheckedFirst ==
  (call.op = "bootstrap_ci"
   /\ call.args.method \notin {"percentile", "pivotal", "bca"})
  => call.exc = "ValueError" /\ call.trials = 0

BayesBetaArgsValid(a) ==
  /\ Len(a.nobs) = 2
  /\ Len(a.counts) = 2
  /\ a.prior.type \in {"list", "tuple"}
  /\ Len(a.prior.items) \in {0, 2, 4}

\* the pseudo-counts C14 states for a prior of 0, 2 or 4 values
PseudoCounts(items) ==
  IF Len(items) = 0 THEN <<1, 1, 1, 1>>
  ELSE IF Len(items) = 2 THEN <<items[1], items[2], items[1], items[2]>>
  ELSE items

SameSeedInputsLevel ==
  /\ cls = "QuantileBootstrap"
  /\ call.op = "resample"
  /\ ref # NoRun
  /\ call.args.samples = ref.samples
  /\ Len(call.args.samples) = 2
  /\ d["random_state"] = ref.config["random_state"]
  /\ d["random_state"] # "None"
  /\ d["q"] = ref.config["q"]

\* the run has ended as the run that is kept and has stored the same arrays
SameArrays ==
  /\ call.exc = ref.exc
  /\ call.returned => <<d["resample_a"], d["resample_b"]>> = ref.arrays

BcaUnbiased ==
  /\ call.op = "bootstrap_ci"
  /\ call.args.method = "bca"
  /\ call.local["z0"] = RZero
  /\ call.local["acc"].square = RZero

\* C19: in bootstrap_ci with method='bca', when z0 is 0 and the acceleration
\* is 0 the adjusted levels are (alpha / 2, 1 - alpha / 2) and the interval
\* returned is the percentile interval over the same replicates.
BcaReducesToPercentile ==
  BcaUnbiased =>
    LET alpha == RSub(ROne, call.args.confidence_level)
        lower == RDiv(alpha, RTwo)
        upper == RSub(ROne, RDiv(alpha, RTwo))
        stats == call.local["bootstrap_stats"]
    IN  /\ <<call.local["a_1"], call.local["a_2"]>> = <<lower, upper>>
        /\ call.returned
        /\ call.ret["result"] = <<Quantile(stats, lower), Quantile(stats, upper)>>

\* an unbiased bca call over replicates that differ has returned an interval
\* with two different ends
BcaUnbiasedInterval ==
  /\ BcaUnbiased
  /\ call.returned
  /\ call.ret["result"][1] # call.ret["result"][2]

\* the sample without its i-th observation
LeaveOneOut(sample, i) ==
  [j \in 1..(Len(sample) - 1) |-> IF j < i THEN sample[j] ELSE sample[j + 1]]

\* bias and estimate of a call of jackknife_estim as C20 states them
JackknifeStated(a) ==
  LET n == Len(a.sample)
      observed == Stat(a.func, a.sample)
      replicates == [i \in 1..n |-> Stat(a.func, LeaveOneOut(a.sample, i))]
      bias == RMul(Int2Rat(n - 1), RSub(RMean(replicates), observed))
  IN  [replicates |-> replicates, observed |-> observed, bias |-> bias,
       estim |-> RSub(observed, bias)]

\* C20: jackknife_estim takes one leave-one-out replicate per observation and
\* returns bias = (n - 1) * (mean(replicates) - observed) and
\* estim = observed - bias; for the arithmetic mean the bias is 0 and the
\* estimate is the plain statistic.
JackknifeBiasCorrected ==
  call.op = "jackknife_estim" =>
    LET stated == JackknifeStated(call.args) IN
    /\ call.returned
    /\ call.local["jackknife_stats"] = stated.replicates
    /\ call.ret["bias"] = stated.bias
    /\ call.ret["estim"] = stated.estim
    /\ call.args.func = "mean" =>
         /\ call.ret["bias"] = RZero
         /\ call.ret["estim"] = stated.observed

\* C20 with the sample size the arithmetic-mean part needs: the replicates,
\* the bias and the estimate are as stated for every sample, and for the
\* arithmetic mean of at least two observations the bias is 0 and the
\* estimate is the plain statistic.  The one replicate of a single
\* observation is the mean of an empty array, nan, and so are bias and estim.
JackknifeBiasCorrectedFromTwo ==
  call.op = "jackknife_estim" =>
    LET stated == JackknifeStated(call.args) IN
    /\ call.returned
    /\ call.local["jackknife_stats"] = stated.replicates
    /\ call.ret["bias"] = stated.bias
    /\ call.ret["estim"] = stated.estim
    /\ (call.args.func = "mean" /\ Len(call.args.sample) >= 2) =>
         /\ call.ret["bias"] = RZero
         /\ call.ret["estim"] = stated.observed
    /\ (call.args.func = "mean" /\ Len(call.args.sample) = 1) =>
         /\ IsNaN(call.ret["bias"])
         /\ IsNaN(call.ret["estim"])

\* a jackknife of the mean of three observations has returned without bias
JackknifeOfThree ==
  /\ call.op = "jackknife_estim"
  /\ call.returned
  /\ Len(call.args.sample) = 3
  /\ call.args.func = "mean"
  /\ call.ret["bias"] = RZero
  /\ call.ret["estim"] = Stat("mean", call.args.sample)

\* the attributes in which a session keeps resample distributions
Distributions(c) ==
  IF c = "BayesBeta" THEN {"beta_control", "beta_test", "uplift_dist"}
  ELSE IF c = "Bootstrap" THEN {"_resample_data", "diffs", "uplift_dist"}
  ELSE IF c \in {"QuantileBootstrap", "ResamplingTtest"}
  THEN {"resample_a", "resample_b", "diffs", "uplift_dist"}
  ELSE {}

\* every stored distribution has as many elements as the resample count
DistributionsHaveResampleCount ==
  (cls \in Strategies /\ resampled) =>
    \A key \in Distributions(cls) \cap DOMAIN d :
      Len(d[key]) = d["n_resamples"]

\* a step that is not a resample leaves every stored distribution as it was
DistributionsKept ==
  call'.op # "resample" =>
    \A key \in Distributions(cls) \cap DOMAIN d :
      key \in DOMAIN d' /\ d'[key] = d[key]

RatioTrial ==
  /\ cls = "Bootstrap"
  /\ call.op = "_resample_func"
  /\ Len(call.args.samples) = 4

\* sum(numerator[ids]) / sum(denominator[ids]) for one vector of 0-based
\* indices: every numerator taken together with the denominator of its unit
JointRatio(numerator, denominator, ids) ==
  RDiv(Int2Rat(SumSeq([k \in 1..Len(ids) |-> numerator[ids[k] + 1]])),
       Int2Rat(SumSeq([k \in 1..Len(ids) |-> denominator[ids[k] + 1]])))

PairedTrial ==
  /\ cls = "Bootstrap"
  /\ call.op = "_resample_func"
  /\ ~call.args.ind

\* the length of arm A of a call of resample
ArmLength(samples) == Len(samples[1])

Pooled(samples) ==
  IF Len(samples) = 4
  THEN [k \in 1..Len(samples[1]) |-> <<samples[1][k], samples[2][k]>>]
         \o [k \in 1..Len(samples[3]) |-> <<samples[3][k], samples[4][k]>>]
  ELSE samples[1] \o samples[2]

\* how many times x occurs in the array
Occurrences(array, x) == Cardinality({k \in 1..Len(array) : array[k] = x})

\* the last call is a trial of permutation_ind
PermutationTrialDone ==
  /\ cls = "permutation_ind"
  /\ call.op = "_resample_func"

\* C24: in every permutation_ind trial the pooled observations are split at
\* arm A's size into two partitions of the sizes of arm A and arm B, which
\* together hold each pooled observation exactly once; in ratio mode an
\* observation is a (numerator, denominator) row, which is never split.
PermutationSplitsPool ==
  PermutationTrialDone =>
    LET pooled == Pooled(call.args.samples)
        part_a == call.local["perm_sample_a"]
        part_b == call.local["perm_sample_b"]
        size_a == Len(call.args.samples[1])
    IN  /\ call.returned
        /\ Len(part_a) = size_a
        /\ Len(part_b) = Len(pooled) - size_a
        /\ \A k \in 1..(Len(part_a) + Len(part_b)) :
             (part_a \o part_b)[k] = pooled[call.args.ids[k] + 1]
        /\ \A k \in 1..Len(pooled) :
             Occurrences(part_a \o part_b, pooled[k]) = Occurrences(pooled, pooled[k])

\* a ratio trial has moved a unit of arm B into the first partition
RatioUnitChangedArm ==
  /\ PermutationTrialDone
  /\ call.returned
  /\ call.args.samples = << <<1, 2>>, <<1, 3>>, <<2, 5>>, <<1, 4>> >>
  /\ call.local["perm_sample_a"] = << <<5, 4>>, <<1, 1>> >>

\* the sum of the values at the positions that carry group label i and stage
\* label j
LabelledSum(values, group_label, stage_label, i, j) ==
  SumSeq([k \in 1..Len(values) |->
            IF group_label[k] = i /\ stage_label[k] = j THEN values[k] ELSE 0])

\* the difference in differences of the caller's values and stage labels,
\* each at its own position, under the group labels given (labels 0 and 1)
DidOf(a, group_label) ==
  LET cell(i, j) ==
        IF a.ratio
        THEN RDiv(Int2Rat(LabelledSum(a.values[1], group_label,
                                      a.experiment_stage_label, i, j)),
                  Int2Rat(LabelledSum(a.values[2], group_label,
                                      a.experiment_stage_label, i, j)))
        ELSE Int2Rat(LabelledSum(a.values[1], group_label,
                                 a.experiment_stage_label, i, j))
  IN  RSub(RSub(cell(1, 1), cell(1, 0)), RSub(cell(0, 1), cell(0, 0)))

\* the last call is one pass of the loop of permutation_did
DidTrialDone == call.op = "permutation_did trial"

\* C25: every permutation_did trial permutes the group labels only: the
\* statistic is that of the caller's values and stage labels at their own
\* positions under the reordered group labels, each group label is carried
\* by as many observations as before, and the caller's group_label array is
\* as it was.
DidPermutesGroupLabelsOnly ==
  DidTrialDone =>
    /\ call.returned
    /\ call.ret = DidOf(call.args, call.local["perm_data"])
    /\ \A label \in {0, 1} :
         Occurrences(call.local["perm_data"], label)
           = Occurrences(call.args.group_label, label)
    /\ call.local["group_label"] = call.args.group_label

\* a trial has given the observations other group labels than the caller's
GroupLabelsReordered ==
  /\ DidTrialDone
  /\ call.returned
  /\ call.local["perm_data"] = <<1, 0, 0, 1>>
  /\ call.args.group_label = <<0, 0, 1, 1>>
  /\ ~call.args.ratio
  /\ call.ret = Int2Rat(5)

\* the degrees of freedom the summary inputs give: n0 + n1 - 2 under equal
\* variances, Welch-Satterthwaite otherwise
SummaryDf(inputs, equal_var) ==
  IF equal_var THEN Int2Rat(inputs.n[1] + inputs.n[2] - 2)
  ELSE RDiv(RMul(RAdd(SemSquared(inputs.std[1], inputs.n[1]),
                      SemSquared(inputs.std[2], inputs.n[2])),
                 RAdd(SemSquared(inputs.std[1], inputs.n[1]),
                      SemSquared(inputs.std[2], inputs.n[2]))),
            RAdd(RDiv(RMul(SemSquared(inputs.std[1], inputs.n[1]),
                           SemSquared(inputs.std[1], inputs.n[1])),
                      Int2Rat(inputs.n[1] - 1)),
                 RDiv(RMul(SemSquared(inputs.std[2], inputs.n[2]),
                           SemSquared(inputs.std[2], inputs.n[2])),
                      Int2Rat(inputs.n[2] - 1))))

\* the p-value the summary inputs and the two flags give
SummaryPValue(inputs, flags) ==
  GetAlternativeValue(
    TCdfAtZero(inputs.mean[2] - inputs.mean[1],
               RAdd(SemSquared(inputs.std[1], inputs.n[1]),
                    SemSquared(inputs.std[2], inputs.n[2])),
               SummaryDf(inputs, flags.equal_var)),
    flags.two_sided)

\* compute of a ResamplingTtest session has returned its dictionary
TtestComputed ==
  /\ cls = "ResamplingTtest"
  /\ call.op = "compute"
  /\ call.returned
  /\ call.ret # PyNone

PooledSemSquared(inputs) ==
  RMul(RDiv(Int2Rat((inputs.n[1] - 1) * inputs.std[1] * inputs.std[1]
                    + (inputs.n[2] - 1) * inputs.std[2] * inputs.std[2]),
            Int2Rat(inputs.n[1] + inputs.n[2] - 2)),
       RAdd(Rat(1, inputs.n[1]), Rat(1, inputs.n[2])))

\* the square of the Welch standard error: sem0^2 + sem1^2
WelchSemSquared(inputs) ==
  RAdd(SemSquared(inputs.std[1], inputs.n[1]), SemSquared(inputs.std[2], inputs.n[2]))

\* compute of a ResamplingTtest session has evaluated the t distribution
TtestEvaluated ==
  /\ cls = "ResamplingTtest"
  /\ call.op = "compute"
  /\ call.returned
  /\ ref # NoRun

WelchStatistic ==
  (TtestEvaluated /\ ~call.args.equal_var) =>
    /\ call.local["cdf"].df = SummaryDf(ref.inputs, FALSE)
    /\ call.local["cdf"].scale_sq = WelchSemSquared(ref.inputs)

PooledDfOnly ==
  (TtestEvaluated /\ call.args.equal_var) =>
    /\ call.local["cdf"].df = Int2Rat(ref.inputs.n[1] + ref.inputs.n[2] - 2)
    /\ call.local["cdf"].scale_sq = WelchSemSquared(ref.inputs)

\* the values of an input sample
ElementsOf(sample) == {Int2Rat(sample[k]) : k \in 1..Len(sample)}

\* a call of QuantileBootstrap.resample
QuantileResampleCalled == cls = "QuantileBootstrap" /\ call.op = "resample"

\* every value of resample_a / resample_b is an element of its input sample
ResampledValuesFromSample ==
  (QuantileResampleCalled /\ call.returned) =>
    /\ \A k \in 1..Len(d["resample_a"]) :
         d["resample_a"][k] \in ElementsOf(call.args.samples[1])
    /\ \A k \in 1..Len(d["resample_b"]) :
         d["resample_b"][k] \in ElementsOf(call.args.samples[2])

ResampleRaised == cls \in Strategies /\ call'.op = "resample" /\ call'.exc # "none"

RaisedBayesBetaLeavesSession ==
  [][(ResampleRaised /\ cls = "BayesBeta") => d' = d]_vars

RaisedBootstrapLeavesSession ==
  [][(ResampleRaised /\ cls = "Bootstrap") => d' = d]_vars

RaisedQuantileLeavesSession ==
  [][(ResampleRaised /\ cls = "QuantileBootstrap") => d' = d]_vars

RaisedTtestLeavesSession ==
  [][(ResampleRaised /\ cls = "ResamplingTtest") => d' = d]_vars

\* the result of one trial as a function of the call's arguments and of
\* what the trial's own generator returns, computed apart from any run
PureTrial(c, func, a, gen) ==
  IF c = "Bootstrap"
  THEN IF Len(a.samples) = 2
       THEN <<Stat(func, Gather(a.samples[1], gen.a)),
              Stat(func, Gather(a.samples[2], IF a.ind THEN gen.b ELSE gen.a))>>
       ELSE <<Stat("ratio_func", Gather(ColumnStack(a.samples[1], a.samples[2]), gen.a)),
              Stat("ratio_func", Gather(ColumnStack(a.samples[3], a.samples[4]),
                                        IF a.ind THEN gen.b ELSE gen.a))>>
  ELSE IF Len(a.samples) = 2
  THEN RSub(Stat(func, Gather(a.samples[1] \o a.samples[2],
                              SubSeq(gen, Len(a.samples[1]) + 1, Len(gen)))),
            Stat(func, Gather(a.samples[1] \o a.samples[2],
                              SubSeq(gen, 1, Len(a.samples[1])))))
  ELSE RSub(Stat("ratio_func",
                 Gather(ColumnStack(a.samples[1], a.samples[2])
                          \o ColumnStack(a.samples[3], a.samples[4]),
                        SubSeq(gen, Len(a.samples[1]) + 1, Len(gen)))),
            Stat("ratio_func",
                 Gather(ColumnStack(a.samples[1], a.samples[2])
                          \o ColumnStack(a.samples[3], a.samples[4]),
                        SubSeq(gen, 1, Len(a.samples[1])))))

\* the statistic function the trials of the call apply
FuncOfRun == IF cls = "Bootstrap" THEN call.local.session["func"] ELSE call.args.func

\* a run of the engine is in progress or has been gathered
EngineRunKept ==
  /\ cls \in {"Bootstrap", "permutation_ind"}
  /\ call.op \in {"pr.resample", "resample", "permutation_ind"}
  /\ "order" \in DOMAIN call.local

\* every trial of the run has finished and the call has returned
EngineGathered == EngineRunKept /\ call.op # "pr.resample" /\ call.returned

============================================================================
